---- MODULE Spec2Model ----
(***************************************************************************)
(* A model of rabid: the expression graph (Expression::chain / complete),  *)
(* the interconnect buffers (intrusive::Exchange), the worker event loop   *)
(* and the idle primitive (detail::idle::Wait) of the Executor.            *)
(*                                                                         *)
(* Atomics are modelled as sequentially consistent single steps; the       *)
(* memory_order arguments of the source are not modelled.                  *)
(***************************************************************************)
EXTENDS Integers, Sequences, FiniteSets, TLC

\* ------------------------------------------------------------------ bounds
\* Number of threads that race chain(T, S) against complete(T).
NumChainers == 3
\* Number of workers of the Executor (the `size` argument).
NumWorkers == 2
\* Number of Executor::inject calls made by the owning thread.
MaxInject == 1
\* Number of Executor::inject calls made on an Executor of one worker.
SmokeInject == 2
\* Number of spurious returns of condition.wait in one run.
MaxSpurious == 1
\* Number of Executor::inject calls when two threads send to one worker.
PairInject == 2
\* Number of tasks of an immediately dispatched promise graph.
MaxGraph == 6
\* Largest node count a Direct mesh is constructed with.
MaxNodes == 6
\* Number of referenced::Pointer variables of the client.
NumPointers == 2
\* Number of objects the client makes with new.
MaxObjects == 3
\* Number of references to one object the client holds as raw pointers.
MaxRaw == 2
\* Number of threads that insert into one Exchange.
NumProducers == 2
\* Number of insert calls of each of them.
MaxInserts == 2
\* Number of clear calls of the thread that drains the Exchange.
MaxClears == 3
\* Largest number of events a Join is reset to.
MaxEvents == 3
\* Largest TagBits of a TaggedPointer type, and the number of objects of a
\* type that pointers are taken of.
MaxBits == 3
MaxAddress == 1

NULL == 0

\* The task whose pending list is raced on, and the successors chained to it.
Target == 1
Successors == 2 .. (NumChainers + 1)
Tasks == 1 .. (NumChainers + 1)

\* Executor: worker indices, the thread that owns the Executor, all threads.
Workers == 0 .. (NumWorkers - 1)
Main == NumWorkers
Threads == 0 .. NumWorkers
\* Task objects the allocator can hand out, by the call that allocates them:
\* inject's make_task, async's make_task, and each worker's make_sentinel
\* (one per inbound buffer and one per send that may have consumed one).
Max(a, b) == IF a > b THEN a ELSE b
MaxCalls == Max(Max(SmokeInject, MaxInject), PairInject)
InjectArena == 1 .. MaxCalls
AsyncArena == (MaxCalls + 1) .. (2 * MaxCalls)
SentinelArenaSize == NumWorkers + 2 * MaxCalls
SentinelArena(w) ==
  (2 * MaxCalls + w * SentinelArenaSize + 1) ..
    (2 * MaxCalls + (w + 1) * SentinelArenaSize)
\* The fan-out task makes a chain of Stages tasks for every worker.
Stages == 4
FanBase == 2 * MaxCalls + NumWorkers * SentinelArenaSize
ChainTask(i, k) == FanBase + Stages * i + k + 1
Pool == 1 .. Max(FanBase + Stages * NumWorkers, MaxObjects)
\* The threads that insert into the Exchange, and the links used there:
\* MaxInserts per inserting thread, and one sentinel per clear.
Inserters == 1 .. NumProducers
Links == 1 .. (NumProducers * MaxInserts + MaxClears)
\* The two TaggedPointer objects of one type that are compared.
Words == 1 .. 2
\* The threads that call Join::notify(), one call each.
Notifiers == 1 .. MaxEvents
\* The local referenced::Pointer variables of the client (a, b).
Locals == 1 .. NumPointers
Buffers == 0 .. (NumWorkers * NumWorkers - 1)
NoThread == -1
\* The null Worker pointer.
NoWorker == NoThread

VARIABLES
  references,   \* referenced::Object::references, per task
  alive,        \* TRUE from new until the Deleter has run
  pending,      \* Expression::pending, per task
  variable,     \* Expression::variable, per task
  chainPc,      \* position of each chain() call: "load", "cas", "done"
  chainPrior,   \* the local `prior` of each chain() call
  casFailed,    \* history: number of failed CAS attempts of each chain() call
  completePc,   \* position of complete(): "idle", "walk", "done"
  waiting,      \* the local `waiting` of complete()
  dispatched,   \* history: how often dispatch() was called for a task
  dispatchedBy, \* history: "chain" or "complete"
  evaluated,    \* history: how often evaluate() ran for a successor
  linkOrder,    \* history: the successors whose CAS in chain() succeeded, in
                \* the order of the CAS
  walkOrder,    \* history: the successors dispatched by complete(), in the
                \* order of the dispatch
  next,         \* intrusive::Link::link, per task (a tagged pointer word)
  address,      \* interconnect::Message::address, per task
  function,     \* Continuation::function, per task (kept after delete)
  head,         \* intrusive::Exchange::head, per buffer
  pc,           \* position of each thread
  conn,         \* Node::operate: index of the connection being drained
  batch,        \* Node::operate: head of the local `batch`
  processed,    \* MessageAgent::processed
  prepare_idle, \* MessageAgent::prepare_idle
  cache,        \* MessageAgent::cache (head of the list)
  current,      \* the task a worker is evaluating, NULL if none
  future,       \* the TaskFuture returned by async to the running task
  sendTask,     \* Exchange::insert: `first` (a tagged pointer word)
  sendBuf,      \* Exchange::insert: the buffer `this`
  prior,        \* Exchange::insert: the local `prior`
  message,      \* PrepareMessage::message
  armed,        \* idle::Wait::armed
  enabled,      \* idle::Wait::enabled
  mutex,        \* idle::Wait::mutex: the thread holding it, or NoThread
  size,         \* Executor( size ): the number of workers constructed
  limit,        \* number of inject calls the owning thread makes at most
  injected,     \* number of inject calls made so far
  counter,      \* the counter every task function increments
  created,      \* history: number of make_task calls
  joinIndex,    \* ~ThreadModel / ~Executor: index of the worker at hand
  evalCount,    \* history: evaluate() calls of the object, reset by new
  evalBy,       \* history: thread of the last evaluate() call
  lastProcessed,\* history: `processed` at the end of the previous pass
  posted,       \* history: Reverse sentinels exchanged in the current pass
  spurious,     \* history: spurious wakeups so far
  notified,     \* history: notify_one calls of interrupt() since yield()
                \* last returned on that idle object
  producers,    \* history: the threads whose insert on a buffer succeeded
  inserted,     \* history: the messages inserted into a buffer since its
                \* last clear, in the order of their inserts
  due,          \* history: what batch.remove() has to return from the
                \* current batch of a worker, in order
  stored,       \* history: the function of Target has returned and its
                \* result is stored in Target's container
  handles,      \* the tasks a Promise or Future object of the client of an
                \* immediately dispatched graph refers to
  index,        \* fan-out task: the loop variable `index`
  built,        \* fan-out task: futures made so far by the statement at hand
  waitingAt,    \* the local `waiting` of complete() running on a worker
  count,        \* fan-out test: state.count
  followup,     \* fan-out test: state.followup
  joined,       \* fan-out test: number of state.join.notify() calls
  node_index,   \* Direct::Direct: the outer loop variable
  edge_index,   \* Direct::Direct: the inner loop variable `index`
  connections,  \* Direct::Direct: the local vector `connections`
  nodes,        \* Direct::nodes
  dispatches,   \* history: dispatch() calls of chain() and complete() on a
                \* worker, per dispatched task
  object,       \* referenced::Pointer::object, per Pointer variable
  constructed,  \* whether the Pointer variable is within its lifetime
  raw,          \* references held through raw pointers: acquire calls not
                \* yet matched by a release, and leaked Pointers, per object
  deletions,    \* history: how often the Deleter ran, per object
  op,           \* history: the last operation on a Pointer or raw pointer
  exProducers,  \* one Exchange: number of threads that insert, 0 = not set up
  exHead,       \* Exchange::head
  exNext,       \* Link::next() of the links inserted into it
  exPc,         \* position of each insert call: "idle", "load", "cas"
  exLink,       \* the `first` (= `tail`) argument of each insert call
  exPrior,      \* the local `prior` of each insert call
  exInserted,   \* number of insert calls each thread has completed
  exCleared,    \* number of clear calls made
  exBatch,      \* the List the last clear returned (its head)
  exRetries,    \* history: failed CAS attempts of the insert call at hand
  exClears,     \* history: clear calls made during the insert call at hand
  exTouched,    \* history: another thread changed head since this call's load
  current_worker, \* thread_local Worker * of each thread, NoWorker if null
  join_events,  \* the number of events the Join was reset to
  join_count,   \* detail::Join::count
  join_mutex,   \* holder of detail::Join::mutex, NoThread if free
  join_wait,    \* position of the thread that calls wait()
  join_notify,  \* position of each thread that calls notify()
  join_spurious, \* history: condition.wait returned without a notification
  tp_bits,      \* TagBits of the TaggedPointer type in use, 0 before a choice
  tp_value,     \* TaggedPointer::value of each of the two tagged pointers
  tp_built,     \* history: the pointer and tag each was last built from
  tp_cast,      \* the result of the last cast(), and what it was made of
  badAccess     \* history: an object was used after its Deleter ran

exprVars == <<references, alive, pending, variable>>
raceVars == <<chainPc, chainPrior, casFailed, completePc, waiting,
              dispatched, dispatchedBy, evaluated, linkOrder, walkOrder>>
fanVars == <<index, built, waitingAt, count, followup, joined>>
meshVars == <<node_index, edge_index, connections, nodes>>
pointerVars == <<object, constructed, raw, deletions, op>>
exchangeVars == <<exProducers, exHead, exNext, exPc, exLink, exPrior,
                  exInserted, exCleared, exBatch, exRetries, exClears,
                  exTouched>>
threadVars == <<current_worker>>
joinVars == <<join_events, join_count, join_mutex, join_wait, join_notify,
              join_spurious>>
tagVars == <<tp_bits, tp_value, tp_built, tp_cast>>
partVars == <<exchangeVars, threadVars, joinVars, tagVars>>
\* What the end of a worker's loop leaves alone besides the Executor's state.
exitFrame == <<raceVars, producers, inserted, due, stored, handles, fanVars,
               meshVars, dispatches, pointerVars, exchangeVars, joinVars,
               tagVars>>
unitVars == <<meshVars, dispatches, pointerVars, partVars>>
clientVars == <<stored, handles, fanVars, unitVars>>
ghostVars == <<producers, inserted, due, clientVars>>
\* What a step of the Executor that calls neither chain() nor complete()
\* and records no history leaves alone.
chainVars == <<raceVars, ghostVars>>
taskVars == <<next, address, function, evalCount, evalBy, counter,
              created>>
loopVars == <<conn, batch, processed, prepare_idle, cache, current, future,
              lastProcessed, posted>>
sendVars == <<sendTask, sendBuf, prior, message>>
idleVars == <<armed, enabled, mutex, spurious, notified>>
mainVars == <<injected, joinIndex, size, limit>>
execVars == <<taskVars, head, pc, loopVars, sendVars, idleVars, mainVars,
              ghostVars, badAccess>>
vars == <<exprVars, chainVars, execVars>>

\* ------------------------------------------------------- referenced.h model
\* Expression::sentinel(): the value of pending that marks completion.
sentinelNull(t) == NULL
sentinel(t) == t

\* release(Base *): fetch_add(-1); the caller that saw 1 runs the Deleter.
\* The Deleter runs ~Expression (release(pending.load())) and then destroys
\* the member `variable` (~Pointer: release(object)).  The count is a size_t:
\* decrementing 0 wraps; the wrapped value is written as -1.
RECURSIVE release(_, _)
release(st, t) ==
  IF t = NULL THEN st
  ELSE LET old == st.references[t]
           st1 == [st EXCEPT !.references[t] = old - 1]
       IN IF old = 1
          THEN LET st2 == [st1 EXCEPT !.alive[t] = FALSE]
                   st3 == release(st2, st2.pending[t])
               IN release(st3, st3.variable[t])
          ELSE st1

\* acquire(Base *): fetch_add(1).
acquireNone(st, t) == st
acquire(st, t) ==
  IF t = NULL THEN st ELSE [st EXCEPT !.references[t] = @ + 1]

\* Pointer::leak(): what `object` is afterwards.
leakKeeps(obj) == obj
leak(obj) == NULL

\* The task objects as one value, for the operators that update them.
Heap == [references |-> references, alive |-> alive,
         pending |-> pending, variable |-> variable]

\* ------------------------------------------------------ Expression::chain
\* The comparison of compare_exchange_strong( prior, expression ).
CasMatchesAlways(actual, expected) == TRUE
CasMatchesNever(actual, expected) == FALSE
CasMatches(actual, expected) == actual = expected

\* chain(): the test prior == sentinel() of task t.
doneNever(seen, t) == FALSE
done(seen, t) == seen = sentinel(t)

\* chain(): load pending; if it is the sentinel, set variable to this and
\* dispatch, else usurp prior into expression->variable and go to the CAS.
ChainLoad(s) ==
  /\ UNCHANGED execVars
  /\ chainPc[s] = "load"
  /\ LET seen == pending[Target] IN
     IF done(seen, Target)
     THEN /\ variable' = [variable EXCEPT ![s] = Target]
          /\ references' = acquire(Heap, Target).references
          /\ dispatched' = [dispatched EXCEPT ![s] = @ + 1]
          /\ dispatchedBy' = [dispatchedBy EXCEPT ![s] = "chain"]
          /\ chainPc' = [chainPc EXCEPT ![s] = "done"]
          /\ UNCHANGED chainPrior
     ELSE /\ variable' = [variable EXCEPT ![s] = seen]
          /\ chainPrior' = [chainPrior EXCEPT ![s] = seen]
          /\ chainPc' = [chainPc EXCEPT ![s] = "cas"]
          /\ UNCHANGED <<references, dispatched, dispatchedBy>>
  /\ UNCHANGED <<alive, pending, casFailed, completePc, waiting, evaluated,
                 linkOrder, walkOrder>>

\* chain(): the CAS prior -> expression; on success the reference is leaked
\* into the list, on failure expression->variable.leak() and retry.
ChainCas(s) ==
  /\ UNCHANGED execVars
  /\ chainPc[s] = "cas"
  /\ IF CasMatches(pending[Target], chainPrior[s])
     THEN /\ pending' = [pending EXCEPT ![Target] = s]
          /\ chainPc' = [chainPc EXCEPT ![s] = "done"]
          /\ linkOrder' = Append(linkOrder, s)
          /\ UNCHANGED <<variable, casFailed>>
     ELSE /\ variable' = [variable EXCEPT ![s] = leak(@)]
          /\ casFailed' = [casFailed EXCEPT ![s] = @ + 1]
          /\ chainPc' = [chainPc EXCEPT ![s] = "load"]
          /\ UNCHANGED <<pending, linkOrder>>
  /\ UNCHANGED <<references, alive, chainPrior, completePc, waiting,
                 dispatched, dispatchedBy, evaluated, walkOrder>>

\* --------------------------------------------------- Expression::complete
\* Continuation::evaluate of Target up to the call of complete(): apply
\* runs the function and stores its result in the container.
Apply ==
  /\ completePc = "idle"
  /\ ~stored
  /\ stored' = TRUE
  /\ UNCHANGED <<exprVars, raceVars, taskVars, head, pc, loopVars, sendVars,
                 idleVars, mainVars, producers, inserted, due, handles,
                 fanVars, unitVars, badAccess>>

\* complete(): variable = nullptr; waiting.usurp( pending.exchange( self ) ).
CompleteExchange ==
  /\ UNCHANGED execVars
  /\ completePc = "idle"
  /\ stored
  /\ waiting' = pending[Target]
  /\ pending' = [pending EXCEPT ![Target] = sentinel(Target)]
  /\ LET st == release([Heap EXCEPT !.variable[Target] = NULL],
                        variable[Target]) IN
       /\ references' = st.references
       /\ alive' = st.alive
       /\ variable' = st.variable
  /\ completePc' = "walk"
  /\ UNCHANGED <<chainPc, chainPrior, casFailed, dispatched, dispatchedBy,
                 evaluated, linkOrder, walkOrder>>

\* complete(): auto next = std::move( waiting->variable ).
NextWaitingDropped(w) == NULL
NextWaiting(w) == variable[w]

\* complete(): one turn of the while( waiting ) loop.
CompleteWalk ==
  /\ UNCHANGED execVars
  /\ completePc = "walk"
  /\ IF waiting # NULL
     THEN /\ variable' = [variable EXCEPT ![waiting] = Target]
          /\ references' = acquire(Heap, Target).references
          /\ dispatched' = [dispatched EXCEPT ![waiting] = @ + 1]
          /\ dispatchedBy' = [dispatchedBy EXCEPT ![waiting] = "complete"]
          /\ waiting' = NextWaiting(waiting)
          /\ walkOrder' = Append(walkOrder, waiting)
          /\ UNCHANGED completePc
     ELSE /\ completePc' = "done"
          /\ UNCHANGED <<variable, references, dispatched, dispatchedBy,
                         waiting, walkOrder>>
  /\ UNCHANGED <<alive, pending, chainPc, chainPrior, casFailed, evaluated,
                 linkOrder>>

\* Continuation::evaluate of a dispatched successor (apply, then complete():
\* variable = nullptr, pending.exchange( self )), followed by the release of
\* the reference that dispatch() had handed over (MessageAgent::receive).
EvaluateSuccessor(s) ==
  /\ UNCHANGED execVars
  /\ dispatched[s] > evaluated[s]
  /\ evaluated' = [evaluated EXCEPT ![s] = @ + 1]
  /\ LET st0 == [Heap EXCEPT !.variable[s] = NULL, !.pending[s] = sentinel(s)]
         st1 == release(st0, variable[s])
         st2 == release(st1, s)
     IN /\ references' = st2.references
        /\ alive' = st2.alive
        /\ pending' = st2.pending
        /\ variable' = st2.variable
  /\ UNCHANGED <<chainPc, chainPrior, casFailed, completePc, waiting,
                 dispatched, dispatchedBy, linkOrder, walkOrder>>

\* ======================================================== the Executor
\* -------------------------------------------------- intrusive.h TaggedPointer
\* Message::PointerType is tagged_pointer_bits<3>::type<Message>.
TagBits == 3
mask == 2^TagBits - 1

RECURSIVE BitOr(_, _)
BitOr(a, b) ==
  IF a = 0 THEN b
  ELSE IF b = 0 THEN a
  ELSE (IF a % 2 = 1 \/ b % 2 = 1 THEN 1 ELSE 0) + 2 * BitOr(a \div 2, b \div 2)

\* enum class Tag { normal, reverse, delay }
normal == 0
reverse == 1
delay == 2

\* The address of a task object: objects are aligned to 2^TagBits.
AddressOf(t) == t * (mask + 1)
TaskAt(p) == p \div (mask + 1)

\* TaggedPointer( Type * value_arg, TagType tag_arg ): value | tag.
TaggedPointer(p, g) == BitOr(p, g)
\* TaggedPointer::get(): value & ~mask.
get(v) == v - (v % (mask + 1))
\* TaggedPointer::tag(): value & mask.
tag(v) == v % (mask + 1)
\* TaggedPointer{ task, Tag } of a task object.
Tagged(t, g) == TaggedPointer(AddressOf(t), g)
\* The task a tagged pointer word refers to.
TaskOf(v) == TaskAt(get(v))
\* List::empty(): head == nullptr compares the pointer part.
empty(v) == get(v) = NULL

\* ------------------------------------------------- interconnect.h Direct
\* size_t arithmetic wraps; operands here stay below 2^8, and the model wraps
\* at 2^30 because the model checker's integers are 32 bits wide.
SizeModulus == 2^30
size_t(x) == x % SizeModulus

\* nodes.capacity() after nodes.reserve( count ).
capacity == size

\* The comparison `src > dst` that selects the buffer of a pair.
OffsetNone(src, dst) == 0
Offset(src, dst) == IF src > dst THEN 1 ELSE 0

\* Direct::buffer_for_edge: index of the buffer written by src, read by dst.
buffer_for_edge(src, dst) ==
  IF src = dst
  THEN size_t(size_t(capacity * size_t(capacity - 1)) + src)
  ELSE LET low == IF src < dst THEN src ELSE dst
           high == IF src < dst THEN dst ELSE src
           pair == size_t(size_t(size_t(size_t(low * capacity)
                                        - (((low + 3) * low) \div 2)) - 1)
                          + high)
       IN size_t(size_t(pair * 2) + Offset(src, dst))

\* Direct::Direct: node(i).connections[j] is
\* Connection( buffer_for_edge( i, j ), buffer_for_edge( j, i ) ).
outbound(i, j) == buffer_for_edge(i, j)
inboundOwn(i, j) == buffer_for_edge(i, j)
inbound(i, j) == buffer_for_edge(j, i)

\* Node::route: connections[ AddressMap( message.address ) ].remote.
routeLoopback(node, addr) == outbound(node, node)
route(node, addr) == outbound(node, addr)

\* ------------------------------------------------------- intrusive::List
\* The tasks of the list that starts at tagged pointer word v.
RECURSIVE ListOf(_, _)
ListOf(nx, v) ==
  IF empty(v) THEN <<>> ELSE <<TaskOf(v)>> \o ListOf(nx, nx[TaskOf(v)])

Range(q) == {q[i] : i \in DOMAIN q}

\* ------------------------------------------------------ task allocation
\* operator new: the lowest free object of the caller's arena (storage is
\* reused after delete).
FreeTasks(arena) == {t \in arena : ~alive[t]}
NewTask(arena) ==
  CHOOSE t \in FreeTasks(arena) : \A u \in FreeTasks(arena) : t <= u

\* Use of an object after its Deleter ran.
Dead(st, t) == t # NULL /\ ~st.alive[t]

\* release( task ) for every task of a drained list (~Worker, ~MessageAgent).
RECURSIVE ReleaseAll(_, _)
ReleaseAll(st, q) ==
  IF q = <<>> THEN st ELSE ReleaseAll(release(st, Head(q)), Tail(q))

\* Expression::complete() of a task without successors in this model:
\* variable = nullptr; pending.exchange( sentinel() ) returns the list, which
\* is walked by the same loop as in CompleteWalk.
completed(st, t) ==
  release([st EXCEPT !.variable[t] = NULL, !.pending[t] = sentinel(t)],
          st.variable[t])

\* make_task: new Continuation{ dispatch, function } held by one Pointer.
make_task(st, t) ==
  [st EXCEPT !.references[t] = 1, !.alive[t] = TRUE,
             !.pending[t] = NULL, !.variable[t] = NULL]

\* The programs a task function can be: a plain function, a function that
\* calls Executor::async( dest, plain function ) and drops the future, and
\* the wakeup function of a sentinel, [&idle]{ idle.interrupt(); }.
Leaf == <<"leaf", 0>>
Programs == {Leaf} \cup {<<"async", d>> : d \in Workers}
Unaddressed == NumWorkers

SetHeap(st) ==
  /\ references' = st.references
  /\ alive' = st.alive
  /\ pending' = st.pending
  /\ variable' = st.variable

\* The fields of the objects that still exist; a deleted object has none.
Remaining(st, f, none) ==
  [t \in DOMAIN f |-> IF st.alive[t] THEN f[t] ELSE none]

\* The heap after releases that may have run Deleters.  The function an
\* object was constructed with is kept on record after the object is gone.
Free(st) ==
  /\ SetHeap(st)
  /\ next' = Remaining(st, next, NULL)
  /\ address' = Remaining(st, address, Unaddressed)
  /\ function' = function

\* ------------------------------------ Worker::operator() and Node::operate
\* Worker::operator(): prepare_idle after a pass that processed p tasks and
\* did not end in idle.yield().
TogglePrepareIdleKept(p, flag) == IF p = 0 THEN ~flag ELSE flag
TogglePrepareIdle(p, flag) == IF p = 0 THEN ~flag ELSE FALSE

\* The position after a message of the batch has been handled: the rest of
\* the batch, the next connection, or the end of the pass, where processed
\* and prepare_idle decide between another pass and idle.yield().
Advance(w, b, p, k) ==
  IF ~empty(b)
  THEN [pc |-> "batch", conn |-> conn[w], batch |-> b, processed |-> p,
        prepare_idle |-> prepare_idle[w], lastProcessed |-> lastProcessed[w],
        posted |-> k]
  ELSE IF conn[w] + 1 < size
  THEN [pc |-> "clear", conn |-> conn[w] + 1, batch |-> NULL, processed |-> p,
        prepare_idle |-> prepare_idle[w], lastProcessed |-> lastProcessed[w],
        posted |-> k]
  ELSE IF p = 0 /\ prepare_idle[w]
  THEN [pc |-> "yield", conn |-> 0, batch |-> NULL, processed |-> p,
        prepare_idle |-> prepare_idle[w], lastProcessed |-> lastProcessed[w],
        posted |-> k]
  ELSE [pc |-> "clear", conn |-> 0, batch |-> NULL, processed |-> 0,
        prepare_idle |-> TogglePrepareIdle(p, prepare_idle[w]),
        lastProcessed |-> p, posted |-> 0]

SetLoop(w, r) ==
  /\ pc' = [pc EXCEPT ![w] = r.pc]
  /\ conn' = [conn EXCEPT ![w] = r.conn]
  /\ batch' = [batch EXCEPT ![w] = r.batch]
  /\ processed' = [processed EXCEPT ![w] = r.processed]
  /\ prepare_idle' = [prepare_idle EXCEPT ![w] = r.prepare_idle]
  /\ lastProcessed' = [lastProcessed EXCEPT ![w] = r.lastProcessed]
  /\ posted' = [posted EXCEPT ![w] = r.posted]

\* MessageAgent::sentinel(): which kind of value is exchanged into a buffer.
SentinelKindAlwaysNull(w) == "null"
SentinelKindNeverCached(w) == IF prepare_idle[w] THEN "new" ELSE "null"
SentinelKind(w) ==
  IF prepare_idle[w]
  THEN IF empty(cache[w]) THEN "new" ELSE "cached"
  ELSE "null"

\* Exchange::clear as the consumer expects it: a Reverse sentinel that no
\* insert has consumed comes back alone, otherwise the messages inserted
\* since the last clear come back, the most recent one first.
Reversed(q) == [i \in 1 .. Len(q) |-> q[Len(q) + 1 - i]]
Batch(h, q) == IF tag(h) = reverse THEN <<TaskOf(h)>> ELSE Reversed(q)
\* What is still due once batch.remove() has returned a message.
Rest(q) == IF q = <<>> THEN q ELSE Tail(q)

\* Exchange::clear: head.exchange( value ), what the head is afterwards.
exchangeKeeps(old, value) == old
exchange(old, value) == value

\* connection.receive( agent.sentinel() ): the sentinel is made and exchanged
\* with the head of the inbound buffer; the old head becomes the batch.
Clear(w) ==
  /\ pc[w] = "clear"
  /\ LET b == inbound(w, conn[w])
         kind == SentinelKind(w)
         s == IF kind = "new" THEN NewTask(SentinelArena(w))
              ELSE IF kind = "cached" THEN TaskOf(cache[w]) ELSE NULL
         word == IF kind = "new" THEN Tagged(s, reverse)
                 ELSE IF kind = "cached" THEN cache[w]
                 ELSE TaggedPointer(NULL, normal)
         k == posted[w] + (IF tag(word) = reverse THEN 1 ELSE 0)
     IN /\ head' = [head EXCEPT ![b] = exchange(@, word)]
        /\ inserted' = [inserted EXCEPT ![b] = <<>>]
        /\ due' = [due EXCEPT ![w] = Batch(head[b], inserted[b])]
        /\ SetLoop(w, Advance(w, head[b], processed[w], k))
        /\ cache' = IF kind = "cached" THEN [cache EXCEPT ![w] = next[s]]
                    ELSE cache
        /\ next' = IF kind = "null" THEN next ELSE [next EXCEPT ![s] = NULL]
        /\ IF kind = "new"
           THEN /\ SetHeap(make_task(Heap, s))
                /\ address' = [address EXCEPT ![s] = Unaddressed]
                /\ function' = [function EXCEPT ![s] = <<"interrupt", w>>]
                /\ evalCount' = [evalCount EXCEPT ![s] = 0]
                /\ evalBy' = [evalBy EXCEPT ![s] = NoThread]
           ELSE UNCHANGED <<exprVars, address, function, evalCount, evalBy>>
  /\ UNCHANGED <<raceVars, producers, clientVars, counter, created, current,
                 future, sendVars, idleVars, mainVars, badAccess>>

\* List::remove: the head is taken off the batch, head = head->next().
removeAll(nx, h) == TaggedPointer(NULL, normal)
remove(nx, h) == nx[TaskOf(h)]

\* batch.remove() and MessageAgent::receive of a Normal task whose function
\* is a plain function: evaluate (function, complete), count, release.
ReceiveTask(w) ==
  /\ pc[w] = "batch"
  /\ tag(batch[w]) = normal
  /\ function[TaskOf(batch[w])] = Leaf
  /\ LET t == TaskOf(batch[w])
     IN /\ Free(release(completed(Heap, t), t))
        /\ evalCount' = [evalCount EXCEPT ![t] = @ + 1]
        /\ evalBy' = [evalBy EXCEPT ![t] = w]
        /\ counter' = counter + 1
        /\ badAccess' = (badAccess \/ Dead(Heap, t))
        /\ SetLoop(w, Advance(w, remove(next, batch[w]), processed[w] + 1,
                               posted[w]))
  /\ UNCHANGED <<raceVars, created, head, cache, current, future, sendVars,
                 idleVars, mainVars>>
  /\ due' = [due EXCEPT ![w] = Rest(@)]
  /\ UNCHANGED <<producers, inserted, clientVars>>

\* batch.remove() and MessageAgent::receive of a Normal task whose function
\* calls Executor::async( d, f ): make_task, acquire, current_worker->send.
ReceiveAsync(w) ==
  /\ pc[w] = "batch"
  /\ tag(batch[w]) = normal
  /\ function[TaskOf(batch[w])][1] = "async"
  /\ LET t == TaskOf(batch[w])
         d == function[t][2]
         child == NewTask(AsyncArena)
     IN /\ SetHeap(acquire(make_task(Heap, child), child))
        /\ address' = [address EXCEPT ![child] = d]
        /\ function' = [function EXCEPT ![child] = Leaf]
        /\ evalCount' = [evalCount EXCEPT ![t] = @ + 1, ![child] = 0]
        /\ evalBy' = [evalBy EXCEPT ![t] = w, ![child] = NoThread]
        /\ counter' = counter + 1
        /\ created' = created + 1
        /\ badAccess' = (badAccess \/ Dead(Heap, t))
        /\ current' = [current EXCEPT ![w] = t]
        /\ future' = [future EXCEPT ![w] = child]
        /\ batch' = [batch EXCEPT ![w] = remove(next, batch[w])]
        /\ sendTask' = [sendTask EXCEPT ![w] = Tagged(child, normal)]
        /\ sendBuf' = [sendBuf EXCEPT ![w] = route(w, d)]
        /\ pc' = [pc EXCEPT ![w] = "send_load"]
  /\ UNCHANGED <<raceVars, next, head, conn, processed, prepare_idle, cache,
                 lastProcessed, posted, prior, message, idleVars, mainVars>>
  /\ due' = [due EXCEPT ![w] = Rest(@)]
  /\ UNCHANGED <<producers, inserted, clientVars>>

\* The rest of the evaluation once async has returned: the future is
\* dropped, complete(), processed += 1, release( task ).
Evaluated(w) ==
  /\ pc[w] = "evaluated"
  /\ LET t == current[w]
         st1 == release(Heap, future[w])
     IN /\ Free(release(completed(st1, t), t))
        /\ badAccess' = (badAccess \/ Dead(Heap, future[w]) \/ Dead(st1, t))
        /\ SetLoop(w, Advance(w, batch[w], processed[w] + 1, posted[w]))
  /\ current' = [current EXCEPT ![w] = NULL]
  /\ future' = [future EXCEPT ![w] = NULL]
  /\ UNCHANGED <<chainVars, evalCount, evalBy, counter, created, head, cache,
                 sendVars, idleVars, mainVars>>

\* batch.remove() and MessageAgent::receive of a message whose tag is not
\* normal: cache.insert( message ).
ReceiveSentinel(w) ==
  /\ pc[w] = "batch"
  /\ tag(batch[w]) # normal
  /\ LET t == TaskOf(batch[w])
     IN /\ next' = [next EXCEPT ![t] = cache[w]]
        /\ cache' = [cache EXCEPT ![w] = batch[w]]
        /\ SetLoop(w, Advance(w, remove(next, batch[w]), processed[w],
                               posted[w]))
  /\ UNCHANGED <<exprVars, raceVars, address, function, evalCount, evalBy,
                 counter, created, head, current, future, sendVars, idleVars,
                 mainVars, badAccess>>
  /\ due' = [due EXCEPT ![w] = Rest(@)]
  /\ UNCHANGED <<producers, inserted, clientVars>>

\* ------------------------------------- Worker::send and Exchange::insert
\* PrepareMessage::operator(): what is written into the new tail's next.
prepareKeepsPrior(p) == p
prepare(p) ==
  IF tag(p) = reverse THEN TaggedPointer(NULL, normal) ELSE p

\* PrepareMessage::operator(): message = prior, on every call.
recordFirst(old, p) == IF old = NULL THEN p ELSE old
record(old, p) == p

\* ~PrepareMessage: does the sender evaluate what it recorded.
wakesNever(m) == FALSE
wakes(m) == tag(m) = reverse

\* Where a thread continues when Worker::send returns.
ReturnPc(th) ==
  IF th = Main THEN "main"
  ELSE IF function[current[th]][1] = "fan" THEN "build"
  ELSE IF function[current[th]][1] = "stage" THEN "walk"
  ELSE IF function[current[th]][1] = "job"
  THEN IF pending[current[th]] = sentinel(current[th]) THEN "walk"
       ELSE "deferred"
  ELSE "evaluated"

\* insert: prior = head.load(); tail->next() = prepare( prior ), where
\* prepare records prior in PrepareMessage::message.
SendLoad(th) ==
  /\ pc[th] = "send_load"
  /\ prior' = [prior EXCEPT ![th] = head[sendBuf[th]]]
  /\ message' = [message EXCEPT ![th] = record(@, head[sendBuf[th]])]
  /\ next' = [next EXCEPT ![TaskOf(sendTask[th])] = prepare(head[sendBuf[th]])]
  /\ pc' = [pc EXCEPT ![th] = "send_cas"]
  /\ UNCHANGED <<exprVars, chainVars, address, function, evalCount, evalBy,
                 counter, created, head, loopVars, sendTask, sendBuf, idleVars,
                 mainVars, badAccess>>

\* insert: head.compare_exchange_strong( prior, first ); on success insert
\* returns and ~PrepareMessage runs, on failure the loop starts over.
SendCas(th) ==
  /\ pc[th] = "send_cas"
  /\ IF CasMatches(head[sendBuf[th]], prior[th])
     THEN /\ head' = [head EXCEPT ![sendBuf[th]] = sendTask[th]]
          /\ pc' = [pc EXCEPT ![th] = IF wakes(message[th]) THEN "wake"
                                      ELSE ReturnPc(th)]
          /\ message' = [message EXCEPT ![th] = IF wakes(message[th])
                                                THEN message[th] ELSE NULL]
          /\ sendTask' = [sendTask EXCEPT ![th] = NULL]
          /\ sendBuf' = [sendBuf EXCEPT ![th] = 0]
          /\ producers' = [producers EXCEPT ![sendBuf[th]] = @ \cup {th}]
          /\ inserted' = [inserted EXCEPT ![sendBuf[th]] =
                            Append(@, TaskOf(sendTask[th]))]
     ELSE /\ pc' = [pc EXCEPT ![th] = "send_load"]
          /\ UNCHANGED <<head, message, sendTask, sendBuf, producers,
                         inserted>>
  /\ prior' = [prior EXCEPT ![th] = NULL]
  /\ UNCHANGED <<exprVars, raceVars, due, clientVars, taskVars, loopVars,
                 idleVars, mainVars, badAccess>>

\* The end of the sentinel's evaluate() and the release( wake ) after it.
WakeDone(th, s) ==
  /\ Free(release(completed(Heap, s), s))
  /\ message' = [message EXCEPT ![th] = NULL]

\* interrupt(): const auto signal = armed.exchange( false ); the value that
\* was exchanged out decides whether interrupt() locks and notifies.
signalNever(a) == FALSE
signalAlways(a) == TRUE
signal(a) == a

\* ~PrepareMessage: wake->evaluate() runs idle.interrupt(), which starts
\* with armed.exchange( false ); without a signal interrupt() returns.
Wake(th) ==
  /\ pc[th] = "wake"
  /\ LET s == TaskOf(message[th])
         o == function[s][2]
     IN /\ evalCount' = [evalCount EXCEPT ![s] = @ + 1]
        /\ evalBy' = [evalBy EXCEPT ![s] = th]
        /\ badAccess' = (badAccess \/ Dead(Heap, s))
        /\ armed' = [armed EXCEPT ![o] = FALSE]
        /\ IF signal(armed[o])
           THEN /\ pc' = [pc EXCEPT ![th] = "interrupt_lock"]
                /\ UNCHANGED <<exprVars, next, address, function, message>>
           ELSE /\ pc' = [pc EXCEPT ![th] = ReturnPc(th)]
                /\ WakeDone(th, s)
  /\ UNCHANGED <<chainVars, counter, created, head, loopVars, sendTask,
                 sendBuf, prior, enabled, mutex, spurious, notified,
                 mainVars>>

\* interrupt(): std::unique_lock lock{ mutex }; lock.unlock().
InterruptLock(th) ==
  /\ pc[th] = "interrupt_lock"
  /\ mutex[function[TaskOf(message[th])][2]] = NoThread
  /\ pc' = [pc EXCEPT ![th] = "interrupt_notify"]
  /\ UNCHANGED <<exprVars, chainVars, taskVars, head, loopVars, sendVars,
                 idleVars, mainVars, badAccess>>

\* condition.notify_one(): a thread blocked in condition.wait is released.
notifyNobody(pcs, o) == pcs
notify_one(pcs, o) ==
  IF pcs[o] = "yield_wait" THEN [pcs EXCEPT ![o] = "yield_woken"] ELSE pcs

\* interrupt(): condition.notify_one(); then the sentinel's evaluate() ends.
InterruptNotify(th) ==
  /\ pc[th] = "interrupt_notify"
  /\ LET s == TaskOf(message[th])
         o == function[s][2]
     IN /\ pc' = [notify_one(pc, o) EXCEPT ![th] = ReturnPc(th)]
        /\ notified' = [notified EXCEPT ![o] = @ + 1]
        /\ WakeDone(th, s)
  /\ UNCHANGED <<chainVars, evalCount, evalBy, counter, created, head,
                 loopVars, sendTask, sendBuf, prior, armed, enabled, mutex,
                 spurious, mainVars, badAccess>>

\* ------------------------------------------------- idle::Wait::yield
\* Worker::operator(): the loop goes on after yield() returned true.
Resume(w) ==
  /\ pc' = [pc EXCEPT ![w] = "clear"]
  /\ prepare_idle' = [prepare_idle EXCEPT ![w] = ~prepare_idle[w]]
  /\ lastProcessed' = [lastProcessed EXCEPT ![w] = processed[w]]
  /\ processed' = [processed EXCEPT ![w] = 0]
  /\ posted' = [posted EXCEPT ![w] = 0]
  /\ notified' = [notified EXCEPT ![w] = 0]
  /\ UNCHANGED <<exprVars, next, address, function, cache>>

\* A loop that leaves current_worker as it is.
exitedKeeps(cw, w) == cw

\* Worker::operator(): current_worker = nullptr, on the thread of worker w.
exited(cw, w) == [cw EXCEPT ![w] = NoWorker]

\* Worker::operator(): current_worker = this, on the thread of worker w.
entered(cw, w) == [cw EXCEPT ![w] = w]

\* Executor::available(), current() and concurrency() called on thread th.
available(th) == current_worker[th] # NoWorker
current_index(th) == current_worker[th]
concurrency(th) == size

\* Worker::operator(): break; ~MessageAgent releases the cached sentinels;
\* current_worker = nullptr.
Exit(w) ==
  /\ pc' = [pc EXCEPT ![w] = "done"]
  /\ current_worker' = exited(current_worker, w)
  /\ Free(ReleaseAll(Heap, ListOf(next, cache[w])))
  /\ cache' = [cache EXCEPT ![w] = NULL]
  /\ notified' = [notified EXCEPT ![w] = 0]
  /\ UNCHANGED <<prepare_idle, lastProcessed, processed, posted>>

\* yield(): lock the mutex, test enabled and armed.  With armed set the
\* thread goes on to condition.wait holding the mutex.
Yield(w) ==
  /\ pc[w] = "yield"
  /\ mutex[w] = NoThread
  /\ IF ~enabled[w]
     THEN Exit(w) /\ UNCHANGED <<armed, mutex>>
     ELSE IF armed[w]
     THEN /\ mutex' = [mutex EXCEPT ![w] = w]
          /\ pc' = [pc EXCEPT ![w] = "yield_sleep"]
          /\ UNCHANGED <<exprVars, next, address, function, cache,
                         prepare_idle, lastProcessed, processed, posted,
                         armed, notified, current_worker>>
     ELSE /\ armed' = [armed EXCEPT ![w] = TRUE]
          /\ Resume(w)
          /\ UNCHANGED <<mutex, current_worker>>
  /\ UNCHANGED <<exitFrame, evalCount, evalBy, counter, created, head, conn,
                 batch, current, future, sendVars, enabled, spurious, mainVars,
                 badAccess>>

\* condition.wait( lock ): release the mutex and block, in one step.
YieldSleep(w) ==
  /\ pc[w] = "yield_sleep"
  /\ mutex' = [mutex EXCEPT ![w] = NoThread]
  /\ pc' = [pc EXCEPT ![w] = "yield_wait"]
  /\ UNCHANGED <<exprVars, chainVars, taskVars, head, loopVars, sendVars,
                 armed, enabled, spurious, notified, mainVars, badAccess>>

\* condition.wait may return without a notification.
SpuriousWake(w) ==
  /\ pc[w] = "yield_wait"
  /\ spurious < MaxSpurious
  /\ spurious' = spurious + 1
  /\ pc' = [pc EXCEPT ![w] = "yield_woken"]
  /\ UNCHANGED <<exprVars, chainVars, taskVars, head, loopVars, sendVars,
                 armed, enabled, mutex, notified, mainVars, badAccess>>

\* yield() after condition.wait returned: the mutex is held again,
\* armed.store( true ), return enabled.
YieldWoken(w) ==
  /\ pc[w] = "yield_woken"
  /\ mutex[w] = NoThread
  /\ armed' = [armed EXCEPT ![w] = TRUE]
  /\ IF enabled[w]
     THEN Resume(w) /\ UNCHANGED current_worker
     ELSE Exit(w)
  /\ UNCHANGED <<exitFrame, evalCount, evalBy, counter, created, head, conn,
                 batch, current, future, sendVars, enabled, mutex, spurious,
                 mainVars, badAccess>>

\* ----------------------------------------------------- Executor::inject
\* inject( index, function ): make_task, then workers[ index ].send of the
\* leaked pointer, which routes by the task's address on worker index's node.
Inject(i, f) ==
  /\ pc[Main] = "main"
  /\ injected < limit
  /\ i < size
  /\ f[2] < size
  /\ injected' = injected + 1
  /\ LET t == NewTask(InjectArena)
     IN /\ SetHeap(make_task(Heap, t))
        /\ address' = [address EXCEPT ![t] = i]
        /\ function' = [function EXCEPT ![t] = f]
        /\ evalCount' = [evalCount EXCEPT ![t] = 0]
        /\ evalBy' = [evalBy EXCEPT ![t] = NoThread]
        /\ sendTask' = [sendTask EXCEPT ![Main] = Tagged(t, normal)]
        /\ sendBuf' = [sendBuf EXCEPT ![Main] = route(i, i)]
  /\ created' = created + 1
  /\ pc' = [pc EXCEPT ![Main] = "send_load"]
  /\ UNCHANGED <<chainVars, next, counter, head, loopVars, prior, message,
                 idleVars, joinIndex, size, limit, badAccess>>

\* ------------------------------------- ~Executor: ~ThreadModel, ~Worker
\* The owning thread leaves the scope of the Executor: ~ThreadModel starts.
Shutdown ==
  /\ pc[Main] = "main"
  /\ pc' = [pc EXCEPT ![Main] = "enable"]
  /\ UNCHANGED <<exprVars, chainVars, taskVars, head, loopVars, sendVars,
                 idleVars, mainVars, badAccess>>

\* idle.enable( false ): lock, enabled = value, unlock.
Enable ==
  /\ pc[Main] = "enable"
  /\ mutex[joinIndex] = NoThread
  /\ enabled' = [enabled EXCEPT ![joinIndex] = FALSE]
  /\ pc' = [pc EXCEPT ![Main] = "enable_notify"]
  /\ UNCHANGED <<exprVars, chainVars, taskVars, head, loopVars, sendVars,
                 armed, mutex, spurious, notified, mainVars, badAccess>>

\* idle.enable( false ): condition.notify_one().
EnableNotify ==
  /\ pc[Main] = "enable_notify"
  /\ pc' = [notify_one(pc, joinIndex) EXCEPT ![Main] = "join"]
  /\ UNCHANGED <<exprVars, chainVars, taskVars, head, loopVars, sendVars,
                 idleVars, mainVars, badAccess>>

\* thread.join(), then the next thread of ~ThreadModel's loop, or the
\* destruction of the workers once every thread is joined.
Join ==
  /\ pc[Main] = "join"
  /\ pc[joinIndex] = "done"
  /\ IF joinIndex + 1 < size
     THEN /\ joinIndex' = joinIndex + 1
          /\ pc' = [pc EXCEPT ![Main] = "enable"]
     ELSE /\ joinIndex' = 0
          /\ pc' = [pc EXCEPT ![Main] = "destroy"]
  /\ UNCHANGED <<exprVars, chainVars, taskVars, head, loopVars, sendVars,
                 idleVars, injected, size, limit, badAccess>>

\* A destructor that drains nothing.
ResidualNone(w, j) == <<>>

\* The messages ~Worker drains: every inbound buffer of the node, in order.
RECURSIVE Residual(_, _)
Residual(w, j) ==
  IF j = size THEN <<>>
  ELSE ListOf(next, head[inbound(w, j)]) \o Residual(w, j + 1)

\* ~Worker: every inbound buffer is cleared with a null sentinel and each
\* message released; Worker::sentinel_cache is never filled by this loop
\* (MessageAgent keeps its own cache), so its loop finds it empty.
DestroyWorker ==
  /\ pc[Main] = "destroy"
  /\ Free(ReleaseAll(Heap, Residual(joinIndex, 0)))
  /\ badAccess' = (badAccess \/
                   \E t \in Range(Residual(joinIndex, 0)) : Dead(Heap, t))
  /\ head' = [b \in Buffers |->
                IF \E j \in 0 .. (size - 1) : b = inbound(joinIndex, j)
                THEN TaggedPointer(NULL, normal) ELSE head[b]]
  /\ inserted' = [b \in Buffers |->
                    IF \E j \in 0 .. (size - 1) : b = inbound(joinIndex, j)
                    THEN <<>> ELSE inserted[b]]
  /\ IF joinIndex + 1 < size
     THEN /\ joinIndex' = joinIndex + 1
          /\ UNCHANGED pc
     ELSE /\ joinIndex' = 0
          /\ pc' = [pc EXCEPT ![Main] = "destroyed"]
  /\ UNCHANGED <<raceVars, producers, due, clientVars, evalCount, evalBy,
                 counter, created, loopVars, sendVars, idleVars, injected,
                 size, limit>>

\* ------------------------------------------------------ initial states
\* The Executor after construction: empty buffers, every worker at the start
\* of its first pass, every idle object armed and enabled.
ExecStartAt(entry) ==
  /\ injected = 0
  /\ counter = 0
  /\ created = 0
  /\ next = [t \in Pool |-> NULL]
  /\ address = [t \in Pool |-> Unaddressed]
  /\ function = [t \in Pool |-> <<"none", 0>>]
  /\ evalCount = [t \in Pool |-> 0]
  /\ evalBy = [t \in Pool |-> NoThread]
  /\ head = [b \in Buffers |-> TaggedPointer(NULL, normal)]
  /\ pc = [th \in Threads |-> IF th = Main THEN "main"
                             ELSE IF th < size THEN entry ELSE "none"]
  /\ current_worker = [th \in Threads |->
                         IF th # Main /\ th < size /\ entry = "clear"
                         THEN th ELSE NoWorker]
  /\ conn = [w \in Workers |-> 0]
  /\ batch = [w \in Workers |-> NULL]
  /\ processed = [w \in Workers |-> 0]
  /\ prepare_idle = [w \in Workers |-> FALSE]
  /\ cache = [w \in Workers |-> NULL]
  /\ current = [w \in Workers |-> NULL]
  /\ future = [w \in Workers |-> NULL]
  /\ lastProcessed = [w \in Workers |-> -1]
  /\ posted = [w \in Workers |-> 0]
  /\ sendTask = [th \in Threads |-> NULL]
  /\ sendBuf = [th \in Threads |-> 0]
  /\ prior = [th \in Threads |-> NULL]
  /\ message = [th \in Threads |-> NULL]
  /\ armed = [w \in Workers |-> TRUE]
  /\ enabled = [w \in Workers |-> TRUE]
  /\ mutex = [w \in Workers |-> NoThread]
  /\ spurious = 0
  /\ notified = [w \in Workers |-> 0]
  /\ producers = [b \in Buffers |-> {}]
  /\ inserted = [b \in Buffers |-> <<>>]
  /\ due = [w \in Workers |-> <<>>]
  /\ stored = FALSE
  /\ handles = {}
  /\ index = 0
  /\ built = 0
  /\ waitingAt = [w \in Workers |-> NULL]
  /\ count = 0
  /\ followup = 0
  /\ joined = 0
  /\ node_index = 0
  /\ edge_index = 0
  /\ connections = <<>>
  /\ nodes = <<>>
  /\ dispatches = [t \in Pool |-> 0]
  /\ object = [p \in Locals |-> NULL]
  /\ constructed = [p \in Locals |-> FALSE]
  /\ raw = [t \in Pool |-> 0]
  /\ deletions = [t \in Pool |-> 0]
  /\ op = <<"none", 0, 0>>
  /\ exProducers = 0
  /\ exHead = NULL
  /\ exNext = [l \in Links |-> NULL]
  /\ exPc = [p \in Inserters |-> "idle"]
  /\ exLink = [p \in Inserters |-> NULL]
  /\ exPrior = [p \in Inserters |-> NULL]
  /\ exInserted = [p \in Inserters |-> 0]
  /\ exCleared = 0
  /\ exBatch = NULL
  /\ exRetries = [p \in Inserters |-> 0]
  /\ exClears = [p \in Inserters |-> 0]
  /\ exTouched = [p \in Inserters |-> FALSE]
  /\ joinIndex = 0
  /\ badAccess = FALSE
  /\ join_events = 0
  /\ join_count = 0
  /\ join_mutex = NoThread
  /\ join_wait = "idle"
  /\ join_notify = [i \in Notifiers |-> "idle"]
  /\ join_spurious = FALSE
  /\ tp_bits = 0
  /\ tp_value = [i \in Words |-> NULL]
  /\ tp_built = [i \in Words |-> <<NULL, 0>>]
  /\ tp_cast = [bits |-> 0, value |-> NULL, pointer |-> NULL, tag |-> 0]

\* The Executor once every worker thread has entered its loop.
ExecStart == ExecStartAt("clear")

\* No chain()/complete() race is running.
ChainIdle ==
  /\ chainPc = [s \in Successors |-> "done"]
  /\ chainPrior = [s \in Successors |-> NULL]
  /\ casFailed = [s \in Successors |-> 0]
  /\ completePc = "done"
  /\ waiting = NULL
  /\ dispatched = [t \in Tasks |-> 0]
  /\ dispatchedBy = [t \in Tasks |-> "none"]
  /\ evaluated = [t \in Tasks |-> 0]
  /\ linkOrder = <<>>
  /\ walkOrder = <<>>

\* No task object exists yet.
EmptyHeap ==
  /\ references = [t \in Pool |-> 0]
  /\ alive = [t \in Pool |-> FALSE]
  /\ pending = [t \in Pool |-> NULL]
  /\ variable = [t \in Pool |-> NULL]

\* Executor executor{ NumWorkers }.
Init ==
  /\ size = NumWorkers
  /\ limit = MaxInject
  /\ EmptyHeap
  /\ ExecStart
  /\ ChainIdle

\* Executor executor{ 1 }, as in the unit test.
SmokeInit ==
  /\ size = 1
  /\ limit = SmokeInject
  /\ EmptyHeap
  /\ ExecStart
  /\ ChainIdle

WorkerStep(w) ==
  \/ Clear(w)
  \/ ReceiveTask(w)
  \/ ReceiveAsync(w)
  \/ Evaluated(w)
  \/ ReceiveSentinel(w)
  \/ Yield(w)
  \/ YieldSleep(w)
  \/ YieldWoken(w)

SendStep(th) ==
  \/ SendLoad(th)
  \/ SendCas(th)
  \/ Wake(th)
  \/ InterruptLock(th)
  \/ InterruptNotify(th)

Running ==
  \/ \E w \in Workers : WorkerStep(w)
  \/ \E th \in Threads : SendStep(th)
  \/ \E i \in Workers, f \in Programs : Inject(i, f)
  \/ \E w \in Workers : SpuriousWake(w)

Stopping ==
  \/ Shutdown
  \/ Enable
  \/ EnableNotify
  \/ Join
  \/ DestroyWorker

Next == Running \/ Stopping

Spec == Init /\ [][Next]_vars

SmokeSpec == SmokeInit /\ [][Next]_vars

\* Worker::operator() up to its loop: current_worker = this.
Enter(w) ==
  /\ pc[w] = "start"
  /\ pc' = [pc EXCEPT ![w] = "clear"]
  /\ current_worker' = entered(current_worker, w)
  /\ UNCHANGED <<exprVars, exitFrame, taskVars, head, loopVars, sendVars,
                 idleVars, mainVars, badAccess>>

\* The Executor right after its constructor: the threads are spawned and
\* none has entered Worker::operator() yet.
LoopInit ==
  /\ size = NumWorkers
  /\ limit = MaxInject
  /\ EmptyHeap
  /\ ExecStartAt("start")
  /\ ChainIdle

LoopNext == Next \/ \E w \in Workers : Enter(w)

LoopSpec == LoopInit /\ [][LoopNext]_vars

\* The steps of the worker threads and of the threads inside Worker::send.
Step ==
  \/ \E w \in Workers : WorkerStep(w)
  \/ \E th \in Threads : SendStep(th)

\* ENABLED <<Step>>_vars as a state predicate: some thread is at a position
\* it can leave; a thread is held up only by condition.wait or by the mutex.
StepEnabled ==
  \/ \E w \in Workers :
       \/ pc[w] \in {"clear", "batch", "evaluated", "yield_sleep"}
       \/ pc[w] \in {"yield", "yield_woken"} /\ mutex[w] = NoThread
  \/ \E th \in Threads :
       \/ pc[th] \in {"send_load", "send_cas", "wake", "interrupt_notify"}
       \/ pc[th] = "interrupt_lock"
            /\ mutex[function[TaskOf(message[th])][2]] = NoThread

\* ENABLED <<Stopping>>_vars as a state predicate.
StoppingEnabled ==
  \/ pc[Main] \in {"main", "enable_notify", "destroy"}
  \/ pc[Main] = "enable" /\ mutex[joinIndex] = NoThread
  \/ pc[Main] = "join" /\ pc[joinIndex] = "done"

\* The two predicates are the enabling conditions they stand for.
EnabledIsExact ==
  [](/\ StepEnabled <=> ENABLED <<Step>>_vars
     /\ StoppingEnabled <=> ENABLED <<Stopping>>_vars)

\* Fair scheduling, WF_vars(Step) written out with StepEnabled: a thread
\* that can take a step is not held up forever.  Inject calls and spurious
\* wakeups are not forced.
Scheduling == []<>(~StepEnabled) \/ []<><<Step>>_vars

\* Fair scheduling when the owner destroys the Executor,
\* WF_vars(Step \/ Stopping) written out in the same way.
SchedulingToEnd ==
  []<>(~(StepEnabled \/ StoppingEnabled)) \/ []<><<Step \/ Stopping>>_vars

\* The Executor while its owner keeps it alive (no shutdown).
RunSpec == Init /\ [][Running]_vars /\ Scheduling

\* The Executor whose owner eventually destroys it.
FairSpec == Init /\ [][Next]_vars /\ SchedulingToEnd

\* Executor executor{ NumWorkers } whose owner makes PairInject inject calls.
PairInit ==
  /\ size = NumWorkers
  /\ limit = PairInject
  /\ EmptyHeap
  /\ ExecStart
  /\ ChainIdle

\* Two producers of one worker: a task injected into worker 0 that calls
\* async( 1, fn ), and a task injected into worker 1.
PairNext ==
  \/ \E w \in Workers : WorkerStep(w)
  \/ \E th \in Threads : SendStep(th)
  \/ Inject(0, <<"async", 1>>)
  \/ Inject(1, Leaf)

PairSpec == PairInit /\ [][PairNext]_vars

\* One producer of one worker: the owner injects PairInject plain tasks
\* into worker 1, whose loopback connection is its second one.
OrderNext ==
  \/ \E w \in Workers : Clear(w)
  \/ \E w \in Workers : ReceiveTask(w)
  \/ \E w \in Workers : ReceiveSentinel(w)
  \/ \E w \in Workers : Yield(w)
  \/ \E w \in Workers : YieldSleep(w)
  \/ \E w \in Workers : YieldWoken(w)
  \/ \E th \in Threads : SendStep(th)
  \/ Inject(1, Leaf)

OrderSpec == PairInit /\ [][OrderNext]_vars

\* The steps of ~ThreadModel and ~Worker once the owner has started them.
Teardown ==
  \/ Enable
  \/ EnableNotify
  \/ Join
  \/ DestroyWorker

\* ENABLED <<Teardown>>_vars as a state predicate.
TeardownEnabled == pc[Main] # "main" /\ StoppingEnabled

\* Fair scheduling of the threads, with an owner that may keep the Executor
\* for ever but does not stop in the middle of destroying it.
SchedulingOwner ==
  []<>(~(StepEnabled \/ TeardownEnabled)) \/ []<><<Step \/ Teardown>>_vars

\* The Executor whose owner may or may not destroy it.
OwnerSpec == Init /\ [][Next]_vars /\ SchedulingOwner

\* ------------------------------------ promise graphs, ImmediateDispatch
\* Continuation::evaluate / Argument::evaluate with dispatch( t ) being
\* t->evaluate(): complete() sets variable = nullptr, exchanges pending for
\* self and walks the list; each waiting task gets variable = this, is
\* evaluated in place, and is released when `waiting` is assigned the next.
RECURSIVE evaluate(_, _), walk(_, _, _)
evaluate(st, t) ==
  LET st1 == release([st EXCEPT !.variable[t] = NULL], st.variable[t])
  IN walk([st1 EXCEPT !.pending[t] = sentinel(t)], t, st1.pending[t])

walk(st, t, w) ==
  IF w = NULL THEN st
  ELSE LET st1 == acquire([st EXCEPT !.variable[w] = t], t)
       IN walk(release(evaluate(st1, w), w), t, st.variable[w])

\* Expression::chain on one thread: with pending == self the expression is
\* evaluated in place and the copied Pointer released on return; otherwise
\* it is linked in front of the list, which keeps the copy.
chain(st, t, e) ==
  IF st.pending[t] = sentinel(t)
  THEN release(evaluate(acquire([st EXCEPT !.variable[e] = t], t), e), e)
  ELSE [st EXCEPT !.variable[e] = st.pending[t], !.pending[t] = e]

\* What the steps of the client of a promise graph leave alone.
executorVars == <<raceVars, next, address, function, evalCount, evalBy,
                  counter, head, pc, loopVars, sendVars, idleVars, mainVars,
                  producers, inserted, due, stored, fanVars, unitVars,
                  badAccess>>

\* Promise<int> promise: a new Argument task held by the promise.
MakePromise ==
  /\ created = 0
  /\ created' = 1
  /\ SetHeap(make_task(Heap, 1))
  /\ handles' = {1}
  /\ UNCHANGED executorVars

\* future.then( function ): a new Continuation held by the returned Future,
\* and chain( result ) with a copy of that Pointer.
Then(h) ==
  /\ h \in handles
  /\ created \in 1 .. (MaxGraph - 1)
  /\ created' = created + 1
  /\ SetHeap(chain(acquire(make_task(Heap, created + 1), created + 1), h,
                   created + 1))
  /\ handles' = handles \cup {created + 1}
  /\ UNCHANGED executorVars

\* promise.complete( value ): construct the value, value->evaluate().
Complete ==
  /\ 1 \in handles
  /\ pending[1] # sentinel(1)
  /\ SetHeap(evaluate(Heap, 1))
  /\ UNCHANGED <<created, handles, executorVars>>

\* The end of the life of a Promise or Future object: ~Pointer releases.
Drop(h) ==
  /\ h \in handles
  /\ SetHeap(release(Heap, h))
  /\ handles' = handles \ {h}
  /\ UNCHANGED <<created, executorVars>>

ImmediateNext ==
  \/ MakePromise
  \/ \E h \in Pool : Then(h)
  \/ Complete
  \/ \E h \in Pool : Drop(h)

\* A client that chains, completes and drops handles in any order.
ImmediateSpec == Init /\ [][ImmediateNext]_vars

\* ------------------------------------------ unit_test_executor.cpp: fan-out
\* The task injected into worker 0, and the four functions of a chain:
\* count++, followup++, followup++ and join.notify().
Fan == <<"fan", 0>>
Stage(k) == <<"stage", k>>

\* batch.remove() and MessageAgent::receive of the injected task: its
\* function starts with limit = Exec::concurrency() and index = 0.
ReceiveFan(w) ==
  /\ pc[w] = "batch"
  /\ tag(batch[w]) = normal
  /\ function[TaskOf(batch[w])][1] = "fan"
  /\ LET t == TaskOf(batch[w])
     IN /\ evalCount' = [evalCount EXCEPT ![t] = @ + 1]
        /\ evalBy' = [evalBy EXCEPT ![t] = w]
        /\ badAccess' = (badAccess \/ Dead(Heap, t))
        /\ current' = [current EXCEPT ![w] = t]
        /\ batch' = [batch EXCEPT ![w] = remove(next, batch[w])]
        /\ pc' = [pc EXCEPT ![w] = "build"]
  /\ index' = 0
  /\ built' = 0
  /\ due' = [due EXCEPT ![w] = Rest(@)]
  /\ UNCHANGED <<exprVars, raceVars, next, address, function, counter, created,
                 head, conn, processed, prepare_idle, cache, future,
                 lastProcessed, posted, sendVars, idleVars, mainVars,
                 producers, inserted, stored, handles, unitVars, waitingAt,
                 count, followup, joined>>

\* The worker a stage of chain i is addressed to: async( index, f0 ),
\* then( j, f2 ) and then( j, f3 ) with j = ( index + 1 ) % limit name it;
\* then( f1 ) names none and its task is addressed like its predecessor.
ThenAddress(i, k) == IF k > 1 THEN (i + 1) % size ELSE i

\* One call of the statement in the loop body.  Exec::async( index, f0 ):
\* make_task, acquire, current_worker->send.  then( f ) and then( j, f ):
\* a new Continuation held by the returned future and by the copy that
\* chain( const Pointer & ) makes.  At the end of the statement the four
\* futures are destroyed, the last one first.
Build(w) ==
  /\ pc[w] = "build"
  /\ IF built = 0
     THEN LET t == ChainTask(index, 0)
          IN /\ SetHeap(acquire(make_task(Heap, t), t))
             /\ address' = [address EXCEPT ![t] = ThenAddress(index, 0)]
             /\ function' = [function EXCEPT ![t] = Stage(0)]
             /\ evalCount' = [evalCount EXCEPT ![t] = 0]
             /\ evalBy' = [evalBy EXCEPT ![t] = NoThread]
             /\ created' = created + 1
             /\ sendTask' = [sendTask EXCEPT ![w] = Tagged(t, normal)]
             /\ sendBuf' = [sendBuf EXCEPT ![w] = route(w, address'[t])]
             /\ pc' = [pc EXCEPT ![w] = "send_load"]
             /\ built' = 1
             /\ UNCHANGED <<next, index, loopVars>>
     ELSE IF built < Stages
     THEN LET e == ChainTask(index, built)
          IN /\ SetHeap(acquire(make_task(Heap, e), e))
             /\ address' = [address EXCEPT ![e] = ThenAddress(index, built)]
             /\ function' = [function EXCEPT ![e] = Stage(built)]
             /\ evalCount' = [evalCount EXCEPT ![e] = 0]
             /\ evalBy' = [evalBy EXCEPT ![e] = NoThread]
             /\ created' = created + 1
             /\ pc' = [pc EXCEPT ![w] = "chain_load"]
             /\ UNCHANGED <<next, index, built, loopVars, sendTask, sendBuf>>
     ELSE LET st == release(release(release(release(Heap,
                      ChainTask(index, 3)), ChainTask(index, 2)),
                      ChainTask(index, 1)), ChainTask(index, 0))
          IN /\ Free(st)
             /\ index' = index + 1
             /\ built' = 0
             /\ pc' = [pc EXCEPT ![w] = IF index + 1 < size THEN "build"
                                        ELSE "evaluated"]
             /\ UNCHANGED <<evalCount, evalBy, created, loopVars, sendTask,
                            sendBuf>>
  /\ UNCHANGED <<raceVars, counter, head, prior, message, idleVars, mainVars,
                 producers, inserted, due, stored, handles, unitVars,
                 waitingAt, count, followup, joined, badAccess>>

\* chain() called by then(): prior = pending.load(); a completed predecessor
\* has expression->variable = this and dispatch( expression ), which sends
\* the expression and leaks the pointer; otherwise variable.usurp( prior ).
TaskChainLoad(w) ==
  /\ pc[w] = "chain_load"
  /\ LET e == ChainTask(index, built)
         pred == ChainTask(index, built - 1)
     IN IF pending[pred] = sentinel(pred)
        THEN /\ SetHeap(acquire([Heap EXCEPT !.variable[e] = pred], pred))
             /\ sendTask' = [sendTask EXCEPT ![w] = Tagged(e, normal)]
             /\ sendBuf' = [sendBuf EXCEPT ![w] = route(w, address[e])]
             /\ pc' = [pc EXCEPT ![w] = "send_load"]
             /\ built' = built + 1
             /\ dispatches' = [dispatches EXCEPT ![e] = @ + 1]
        ELSE /\ SetHeap([Heap EXCEPT !.variable[e] = pending[pred]])
             /\ pc' = [pc EXCEPT ![w] = "chain_cas"]
             /\ UNCHANGED <<sendTask, sendBuf, built, dispatches>>
  /\ UNCHANGED <<raceVars, taskVars, head, loopVars, prior, message, idleVars,
                 mainVars, producers, inserted, due, stored, handles, meshVars,
                 pointerVars, partVars, index, waitingAt, count, followup,
                 joined, badAccess>>

\* chain(): pending.compare_exchange_strong( prior, expression ); on success
\* expression.leak(), on failure expression->variable.leak() and a new pass.
TaskChainCas(w) ==
  /\ pc[w] = "chain_cas"
  /\ LET e == ChainTask(index, built)
         pred == ChainTask(index, built - 1)
     IN IF CasMatches(pending[pred], variable[e])
        THEN /\ SetHeap([Heap EXCEPT !.pending[pred] = e])
             /\ pc' = [pc EXCEPT ![w] = "build"]
             /\ built' = built + 1
        ELSE /\ SetHeap([Heap EXCEPT !.variable[e] = NULL])
             /\ pc' = [pc EXCEPT ![w] = "chain_load"]
             /\ UNCHANGED built
  /\ UNCHANGED <<raceVars, taskVars, head, loopVars, sendVars, idleVars,
                 mainVars, producers, inserted, due, stored, handles, unitVars,
                 index, waitingAt, count, followup, joined, badAccess>>

\* batch.remove() and MessageAgent::receive of a task of a chain:
\* Continuation::evaluate applies the function and calls complete(), which
\* starts with variable = nullptr and waiting.usurp( pending.exchange( self ) ).
ReceiveStage(w) ==
  /\ pc[w] = "batch"
  /\ tag(batch[w]) = normal
  /\ function[TaskOf(batch[w])][1] = "stage"
  /\ LET t == TaskOf(batch[w])
         k == function[t][2]
         st == release([Heap EXCEPT !.variable[t] = NULL], variable[t])
     IN /\ Free([st EXCEPT !.pending[t] = sentinel(t)])
        /\ waitingAt' = [waitingAt EXCEPT ![w] = st.pending[t]]
        /\ evalCount' = [evalCount EXCEPT ![t] = @ + 1]
        /\ evalBy' = [evalBy EXCEPT ![t] = w]
        /\ count' = IF k = 0 THEN count + 1 ELSE count
        /\ followup' = IF k \in {1, 2} THEN followup + 1 ELSE followup
        /\ joined' = IF k = 3 THEN joined + 1 ELSE joined
        /\ badAccess' = (badAccess \/ Dead(Heap, t) \/ Dead(Heap, variable[t]))
        /\ current' = [current EXCEPT ![w] = t]
        /\ batch' = [batch EXCEPT ![w] = remove(next, batch[w])]
        /\ pc' = [pc EXCEPT ![w] = "walk"]
  /\ due' = [due EXCEPT ![w] = Rest(@)]
  /\ UNCHANGED <<raceVars, counter, created, head, conn, processed,
                 prepare_idle, cache, future, lastProcessed, posted, sendVars,
                 idleVars, mainVars, producers, inserted, stored, handles,
                 unitVars, index, built>>

\* complete(): the loop over waiting, one dispatch per pass; and after it
\* the rest of MessageAgent::receive: processed += 1, release( task ).
TaskWalk(w) ==
  /\ pc[w] = "walk"
  /\ LET t == current[w]
         x == waitingAt[w]
     IN IF x # NULL
        THEN /\ SetHeap(acquire([Heap EXCEPT !.variable[x] = t], t))
             /\ waitingAt' = [waitingAt EXCEPT ![w] = variable[x]]
             /\ sendTask' = [sendTask EXCEPT ![w] = Tagged(x, normal)]
             /\ sendBuf' = [sendBuf EXCEPT ![w] = route(w, address[x])]
             /\ pc' = [pc EXCEPT ![w] = "send_load"]
             /\ badAccess' = (badAccess \/ Dead(Heap, x))
             /\ dispatches' = [dispatches EXCEPT ![x] = @ + 1]
             /\ UNCHANGED <<next, address, function, conn, batch, processed,
                            prepare_idle, current, lastProcessed, posted>>
        ELSE /\ Free(release(Heap, t))
             /\ badAccess' = (badAccess \/ Dead(Heap, t))
             /\ current' = [current EXCEPT ![w] = NULL]
             /\ SetLoop(w, Advance(w, batch[w], processed[w] + 1, posted[w]))
             /\ UNCHANGED <<waitingAt, sendTask, sendBuf, dispatches>>
  /\ UNCHANGED <<raceVars, evalCount, evalBy, counter, created, head, cache,
                 future, prior, message, idleVars, mainVars, producers,
                 inserted, due, stored, handles, meshVars, pointerVars,
                 partVars, index, built, count, followup, joined>>

\* The unit test up to state.join.wait(): one inject into worker 0, the
\* workers, and no ~Executor before the join.
FanNext ==
  \/ Inject(0, Fan)
  \/ \E w \in Workers : Clear(w)
  \/ \E w \in Workers : ReceiveFan(w)
  \/ \E w \in Workers : Build(w)
  \/ \E w \in Workers : TaskChainLoad(w)
  \/ \E w \in Workers : TaskChainCas(w)
  \/ \E w \in Workers : ReceiveStage(w)
  \/ \E w \in Workers : TaskWalk(w)
  \/ \E w \in Workers : Evaluated(w)
  \/ \E w \in Workers : ReceiveSentinel(w)
  \/ \E w \in Workers : Yield(w)
  \/ \E w \in Workers : YieldSleep(w)
  \/ \E w \in Workers : YieldWoken(w)
  \/ \E th \in Threads : SendStep(th)

\* Executor executor{ NumWorkers } and the one inject of the test.
FanInit ==
  /\ size = NumWorkers
  /\ limit = 1
  /\ EmptyHeap
  /\ ExecStart
  /\ ChainIdle

FanSpec == FanInit /\ [][FanNext]_vars

\* ------------------------------------------- interconnect.h Direct::Direct
\* The number of buffers allocated: make_unique<Buffer[]>( (count - 1) *
\* count + count ).
Allocation(n) == size_t(size_t(size_t(n - 1) * n) + n)

\* Connection( outbound, inbound ): remote( outbound ), local( inbound ).
Connection(o, i) == [remote |-> o, local |-> i]

\* connections.emplace_back( buffer_for_edge( node_index, index ),
\* buffer_for_edge( index, node_index ) ); ++index.
EmplaceConnection ==
  /\ node_index < size
  /\ edge_index < size
  /\ connections' = Append(connections,
                           Connection(outbound(node_index, edge_index),
                                      inbound(node_index, edge_index)))
  /\ edge_index' = edge_index + 1
  /\ UNCHANGED <<exprVars, raceVars, taskVars, head, pc, loopVars, sendVars,
                 idleVars, mainVars, producers, inserted, due, stored, handles,
                 fanVars, node_index, nodes, dispatches, pointerVars, partVars,
                 badAccess>>

\* nodes.emplace_back( std::move( connections ) ); ++node_index.
EmplaceNode ==
  /\ node_index < size
  /\ edge_index = size
  /\ nodes' = Append(nodes, connections)
  /\ connections' = <<>>
  /\ edge_index' = 0
  /\ node_index' = node_index + 1
  /\ UNCHANGED <<exprVars, raceVars, taskVars, head, pc, loopVars, sendVars,
                 idleVars, mainVars, producers, inserted, due, stored, handles,
                 fanVars, dispatches, pointerVars, partVars, badAccess>>

\* Direct mesh{ count } for every count from 1 to MaxNodes.
MeshInit ==
  /\ size \in 1 .. MaxNodes
  /\ limit = 0
  /\ EmptyHeap
  /\ ExecStart
  /\ ChainIdle

MeshNext == EmplaceConnection \/ EmplaceNode

MeshSpec == MeshInit /\ [][MeshNext]_vars

\* ------------------------------------------------------ Executor::defer
\* A task on worker 0 calls async( JobWorker, job ).then( JobWorker, f ),
\* where job is the Job of rotate_executor_defer with limit 2: its first
\* evaluation calls defer( ( current() + 1 ) % concurrency() ), its second
\* one join.notify().
Job == <<"job", 0>>
JobWorker == 1 % size
JobTask == ChainTask(0, 0)
JobSuccessor == ChainTask(0, 1)

\* The worker named by the defer call of a job running on worker w.
DeferTarget(w) == (current_index(w) + 1) % concurrency(w)

\* The statement of the task on worker 0, one call per step, and the
\* destruction of the two futures at its end.
DeferBuild(w) ==
  /\ pc[w] = "build"
  /\ IF built = 0
     THEN /\ SetHeap(acquire(make_task(Heap, JobTask), JobTask))
          /\ address' = [address EXCEPT ![JobTask] = JobWorker]
          /\ function' = [function EXCEPT ![JobTask] = Job]
          /\ evalCount' = [evalCount EXCEPT ![JobTask] = 0]
          /\ evalBy' = [evalBy EXCEPT ![JobTask] = NoThread]
          /\ created' = created + 1
          /\ sendTask' = [sendTask EXCEPT ![w] = Tagged(JobTask, normal)]
          /\ sendBuf' = [sendBuf EXCEPT ![w] = route(w, JobWorker)]
          /\ pc' = [pc EXCEPT ![w] = "send_load"]
          /\ built' = 1
          /\ UNCHANGED next
     ELSE IF built = 1
     THEN /\ SetHeap(acquire(make_task(Heap, JobSuccessor), JobSuccessor))
          /\ address' = [address EXCEPT ![JobSuccessor] = JobWorker]
          /\ function' = [function EXCEPT ![JobSuccessor] = Stage(1)]
          /\ evalCount' = [evalCount EXCEPT ![JobSuccessor] = 0]
          /\ evalBy' = [evalBy EXCEPT ![JobSuccessor] = NoThread]
          /\ created' = created + 1
          /\ pc' = [pc EXCEPT ![w] = "chain_load"]
          /\ UNCHANGED <<next, built, sendTask, sendBuf>>
     ELSE /\ Free(release(release(Heap, JobSuccessor), JobTask))
          /\ pc' = [pc EXCEPT ![w] = "evaluated"]
          /\ UNCHANGED <<evalCount, evalBy, created, built, sendTask, sendBuf>>
  /\ UNCHANGED <<raceVars, counter, head, loopVars, prior, message, idleVars,
                 mainVars, producers, inserted, due, stored, handles,
                 unitVars, index, waitingAt, count, followup, joined,
                 badAccess>>

\* batch.remove() and MessageAgent::receive of the job.  An evaluation that
\* called defer( d ) does not complete the task: pending tasks remain
\* pending, and the task is sent to worker d with a reference of its own.
\* The other evaluation ends with complete().
ReceiveJob(w) ==
  /\ pc[w] = "batch"
  /\ tag(batch[w]) = normal
  /\ function[TaskOf(batch[w])][1] = "job"
  /\ LET t == TaskOf(batch[w])
     IN /\ evalCount' = [evalCount EXCEPT ![t] = @ + 1]
        /\ evalBy' = [evalBy EXCEPT ![t] = w]
        /\ badAccess' = (badAccess \/ Dead(Heap, t))
        /\ current' = [current EXCEPT ![w] = t]
        /\ batch' = [batch EXCEPT ![w] = remove(next, batch[w])]
        /\ IF evalCount[t] = 0
           THEN /\ SetHeap(acquire(Heap, t))
                /\ address' = [address EXCEPT ![t] = DeferTarget(w)]
                /\ sendTask' = [sendTask EXCEPT ![w] = Tagged(t, normal)]
                /\ sendBuf' = [sendBuf EXCEPT ![w] = route(w, DeferTarget(w))]
                /\ pc' = [pc EXCEPT ![w] = "send_load"]
                /\ UNCHANGED <<next, function, waitingAt, joined>>
           ELSE /\ Free([Heap EXCEPT !.variable[t] = NULL,
                                     !.pending[t] = sentinel(t)])
                /\ waitingAt' = [waitingAt EXCEPT ![w] = pending[t]]
                /\ joined' = joined + 1
                /\ pc' = [pc EXCEPT ![w] = "walk"]
                /\ UNCHANGED <<sendTask, sendBuf>>
  /\ due' = [due EXCEPT ![w] = Rest(@)]
  /\ UNCHANGED <<raceVars, counter, created, head, conn, processed,
                 prepare_idle, cache, future, lastProcessed, posted, prior,
                 message, idleVars, mainVars, producers, inserted, stored,
                 handles, unitVars, index, built, count, followup>>

\* The rest of MessageAgent::receive after an evaluation that deferred the
\* task: processed += 1, release( task ).
Deferred(w) ==
  /\ pc[w] = "deferred"
  /\ Free(release(Heap, current[w]))
  /\ badAccess' = (badAccess \/ Dead(Heap, current[w]))
  /\ current' = [current EXCEPT ![w] = NULL]
  /\ SetLoop(w, Advance(w, batch[w], processed[w] + 1, posted[w]))
  /\ UNCHANGED <<chainVars, evalCount, evalBy, counter, created, head, cache,
                 future, sendVars, idleVars, mainVars>>

DeferNext ==
  \/ Inject(0, Fan)
  \/ \E w \in Workers : Clear(w)
  \/ \E w \in Workers : ReceiveFan(w)
  \/ \E w \in Workers : DeferBuild(w)
  \/ \E w \in Workers : TaskChainLoad(w)
  \/ \E w \in Workers : TaskChainCas(w)
  \/ \E w \in Workers : ReceiveJob(w)
  \/ \E w \in Workers : Deferred(w)
  \/ \E w \in Workers : ReceiveStage(w)
  \/ \E w \in Workers : TaskWalk(w)
  \/ \E w \in Workers : Evaluated(w)
  \/ \E w \in Workers : ReceiveSentinel(w)
  \/ \E w \in Workers : Yield(w)
  \/ \E w \in Workers : YieldSleep(w)
  \/ \E w \in Workers : YieldWoken(w)
  \/ \E th \in Threads : SendStep(th)

DeferSpec == FanInit /\ [][DeferNext]_vars

\* ------------------------------------------- referenced::Object / Pointer
\* new Test{}: an object of its own with references{ 0 }.
NewObjectHeld(st, n) == [st EXCEPT !.references[n] = 1, !.alive[n] = TRUE]
NewObject(st, n) == [st EXCEPT !.references[n] = 0, !.alive[n] = TRUE]

\* What the steps of the client leave alone.
clientFrame == <<raceVars, next, address, function, evalCount, evalBy,
                 counter, head, pc, loopVars, sendVars, idleVars, mainVars,
                 producers, inserted, due, stored, handles, fanVars,
                 meshVars, dispatches, partVars>>

\* The heap after an operation, the object x whose release was called on
\* heap st, the Deleter having run if that release saw a count of 1, and
\* the use of a destroyed object by any call of the operation.
Effect(st1, st, x, used) ==
  /\ SetHeap(st1)
  /\ deletions' = IF x # NULL /\ st.references[x] = 1
                  THEN [deletions EXCEPT ![x] = @ + 1] ELSE deletions
  /\ badAccess' = (badAccess \/ \E u \in used : Dead(Heap, u))
  /\ UNCHANGED clientFrame

\* Pointer() = default.
ConstructDefault(p) ==
  /\ ~constructed[p]
  /\ constructed' = [constructed EXCEPT ![p] = TRUE]
  /\ object' = [object EXCEPT ![p] = NULL]
  /\ op' = <<"default", p, 0>>
  /\ Effect(Heap, Heap, NULL, {})
  /\ UNCHANGED <<raw, created>>

\* Pointer( Base * const other ) with other = new Test{}.
ConstructNew(p) ==
  /\ ~constructed[p]
  /\ created < MaxObjects
  /\ LET n == created + 1
     IN /\ Effect(acquire(NewObject(Heap, n), n), Heap, NULL, {})
        /\ object' = [object EXCEPT ![p] = n]
        /\ op' = <<"new", p, n>>
  /\ constructed' = [constructed EXCEPT ![p] = TRUE]
  /\ created' = created + 1
  /\ UNCHANGED raw

\* Pointer( const Pointer & other ).
ConstructCopy(p, q) ==
  /\ ~constructed[p] /\ constructed[q]
  /\ Effect(acquire(Heap, object[q]), Heap, NULL, {object[q]})
  /\ object' = [object EXCEPT ![p] = object[q]]
  /\ constructed' = [constructed EXCEPT ![p] = TRUE]
  /\ op' = <<"copy", p, q>>
  /\ UNCHANGED <<raw, created>>

\* Pointer( Pointer && other ).
ConstructMove(p, q) ==
  /\ ~constructed[p] /\ constructed[q]
  /\ Effect(Heap, Heap, NULL, {})
  /\ object' = [object EXCEPT ![p] = object[q], ![q] = NULL]
  /\ constructed' = [constructed EXCEPT ![p] = TRUE]
  /\ op' = <<"move", p, q>>
  /\ UNCHANGED <<raw, created>>

\* ~Pointer: release( object ).
Destruct(p) ==
  /\ constructed[p]
  /\ Effect(release(Heap, object[p]), Heap, object[p], {object[p]})
  /\ object' = [object EXCEPT ![p] = NULL]
  /\ constructed' = [constructed EXCEPT ![p] = FALSE]
  /\ op' = <<"destruct", p, 0>>
  /\ UNCHANGED <<raw, created>>

\* operator = ( Base * const other ) with other = new Test{}:
\* acquire( other ); release( object ); object = other.
AssignNew(p) ==
  /\ constructed[p]
  /\ created < MaxObjects
  /\ LET n == created + 1
         st == acquire(NewObject(Heap, n), n)
     IN /\ Effect(release(st, object[p]), st, object[p], {object[p]})
        /\ object' = [object EXCEPT ![p] = n]
        /\ op' = <<"assign_new", p, n>>
  /\ created' = created + 1
  /\ UNCHANGED <<raw, constructed>>

\* operator = ( Base * const other ) with other = nullptr.
AssignNull(p) ==
  /\ constructed[p]
  /\ Effect(release(Heap, object[p]), Heap, object[p], {object[p]})
  /\ object' = [object EXCEPT ![p] = NULL]
  /\ op' = <<"assign_null", p, 0>>
  /\ UNCHANGED <<raw, constructed, created>>

\* operator = ( const Pointer & other ): acquire( other.object );
\* tmp = other.object; release( object ); object = tmp.
AssignCopy(p, q) ==
  /\ constructed[p] /\ constructed[q]
  /\ LET st == acquire(Heap, object[q])
     IN Effect(release(st, object[p]), st, object[p], {object[p], object[q]})
  /\ object' = [object EXCEPT ![p] = object[q]]
  /\ op' = <<"assign_copy", p, q>>
  /\ UNCHANGED <<raw, constructed, created>>

\* operator = ( Pointer && other ): tmp = other.object; other.object =
\* nullptr; release( object ); object = tmp.
AssignMove(p, q) ==
  /\ constructed[p] /\ constructed[q]
  /\ LET tmp == object[q]
         cleared == [object EXCEPT ![q] = NULL]
     IN /\ Effect(release(Heap, cleared[p]), Heap, cleared[p], {cleared[p]})
        /\ object' = [cleared EXCEPT ![p] = tmp]
  /\ op' = <<"assign_move", p, q>>
  /\ UNCHANGED <<raw, constructed, created>>

\* Test * val = new Test{}; acquire( val ).
AcquireNew ==
  /\ created < MaxObjects
  /\ LET n == created + 1
     IN /\ Effect(acquire(NewObject(Heap, n), n), Heap, NULL, {})
        /\ raw' = [raw EXCEPT ![n] = 1]
        /\ op' = <<"acquire_new", 0, n>>
  /\ created' = created + 1
  /\ UNCHANGED <<object, constructed>>

\* acquire( p.get() ): one more reference held through a raw pointer.
AcquireRaw(p) ==
  /\ constructed[p]
  /\ object[p] # NULL
  /\ raw[object[p]] < MaxRaw
  /\ Effect(acquire(Heap, object[p]), Heap, NULL, {object[p]})
  /\ raw' = [raw EXCEPT ![object[p]] = @ + 1]
  /\ op' = <<"acquire", p, object[p]>>
  /\ UNCHANGED <<object, constructed, created>>

\* release( val ) of a reference held through a raw pointer.
ReleaseRaw(x) ==
  /\ raw[x] > 0
  /\ Effect(release(Heap, x), Heap, x, {x})
  /\ raw' = [raw EXCEPT ![x] = @ - 1]
  /\ op' = <<"release", 0, x>>
  /\ UNCHANGED <<object, constructed, created>>

\* The calls of usurp( other ) that change counts: release( object ).
usurpAcquires(st, old, other) == acquire(release(st, old), other)
usurp(st, old, other) == release(st, old)

\* usurp( other ), other a counted reference held through a raw pointer:
\* release( object ); object = other.
Usurp(p, x) ==
  /\ constructed[p]
  /\ raw[x] > 0
  /\ Effect(usurp(Heap, object[p], x), Heap, object[p], {object[p]})
  /\ object' = [object EXCEPT ![p] = x]
  /\ raw' = [raw EXCEPT ![x] = @ - 1]
  /\ op' = <<"usurp", p, x>>
  /\ UNCHANGED <<constructed, created>>

\* leak(): result = object; object = nullptr; return result.  The caller
\* holds the reference through the raw pointer from then on.
Leak(p) ==
  /\ constructed[p]
  /\ object[p] # NULL => raw[object[p]] < MaxRaw
  /\ Effect(Heap, Heap, NULL, {})
  /\ object' = [object EXCEPT ![p] = NULL]
  /\ raw' = IF object[p] = NULL THEN raw
            ELSE [raw EXCEPT ![object[p]] = @ + 1]
  /\ op' = <<"leak", p, object[p]>>
  /\ UNCHANGED <<constructed, created>>

PointerNext ==
  \/ \E p \in Locals : ConstructDefault(p)
  \/ \E p \in Locals : ConstructNew(p)
  \/ \E p \in Locals, q \in Locals : ConstructCopy(p, q)
  \/ \E p \in Locals, q \in Locals : ConstructMove(p, q)
  \/ \E p \in Locals : Destruct(p)
  \/ \E p \in Locals : AssignNew(p)
  \/ \E p \in Locals : AssignNull(p)
  \/ \E p \in Locals, q \in Locals : AssignCopy(p, q)
  \/ \E p \in Locals, q \in Locals : AssignMove(p, q)
  \/ AcquireNew
  \/ \E p \in Locals : AcquireRaw(p)
  \/ \E x \in 1 .. MaxObjects : ReleaseRaw(x)
  \/ \E p \in Locals, x \in 1 .. MaxObjects : Usurp(p, x)
  \/ \E p \in Locals : Leak(p)

PointerSpec == Init /\ [][PointerNext]_vars

\* ---------------------------------------------- intrusive.h Exchange alone
\* One Exchange, exProducers threads that call insert( link, prepare ) with
\* the Executor's PrepareMessage, and one thread that calls clear( value )
\* with a null value or with a Reverse-tagged sentinel.
\* What the steps on the Exchange leave alone.
exchangeFrame == <<exprVars, raceVars, taskVars, head, pc, loopVars,
                   sendVars, idleVars, mainVars, badAccess, producers,
                   inserted, due, stored, handles, fanVars, meshVars,
                   dispatches, pointerVars, threadVars, joinVars, tagVars>>

\* The link of the k-th insert of thread p, and the sentinel of clear c.
LinkOf(p, k) == (p - 1) * MaxInserts + k
SentinelOf(c) == NumProducers * MaxInserts + c

\* The number of inserting threads is chosen.
ExchangeSetup(n) ==
  /\ exProducers = 0
  /\ exProducers' = n
  /\ UNCHANGED <<exchangeFrame, exHead, exNext, exPc, exLink, exPrior,
                 exInserted, exCleared, exBatch, exRetries, exClears,
                 exTouched>>

\* A thread calls insert( link, prepare ).
Insert(p) ==
  /\ p <= exProducers
  /\ exPc[p] = "idle"
  /\ exInserted[p] < MaxInserts
  /\ exLink' = [exLink EXCEPT
                  ![p] = Tagged(LinkOf(p, exInserted[p] + 1), normal)]
  /\ exPc' = [exPc EXCEPT ![p] = "load"]
  /\ exRetries' = [exRetries EXCEPT ![p] = 0]
  /\ exClears' = [exClears EXCEPT ![p] = 0]
  /\ UNCHANGED <<exchangeFrame, exProducers, exHead, exNext, exPrior,
                 exInserted, exCleared, exBatch, exTouched>>

\* insert: prior = head.load(); tail->next() = prepare( prior ).
InsertLoad(p) ==
  /\ exPc[p] = "load"
  /\ exPrior' = [exPrior EXCEPT ![p] = exHead]
  /\ exNext' = [exNext EXCEPT ![TaskOf(exLink[p])] = prepare(exHead)]
  /\ exTouched' = [exTouched EXCEPT ![p] = FALSE]
  /\ exPc' = [exPc EXCEPT ![p] = "cas"]
  /\ UNCHANGED <<exchangeFrame, exProducers, exHead, exLink, exInserted,
                 exCleared, exBatch, exRetries, exClears>>

\* The inserts between their load and their CAS see a change of the head.
Touch(by, new) ==
  [q \in Inserters |->
     IF q # by /\ exPc[q] = "cas" /\ new # exHead THEN TRUE
     ELSE exTouched[q]]

\* insert: head.compare_exchange_strong( prior, first ); break on success.
InsertCas(p) ==
  /\ exPc[p] = "cas"
  /\ IF CasMatches(exHead, exPrior[p])
     THEN /\ exHead' = exLink[p]
          /\ exTouched' = Touch(p, exLink[p])
          /\ exInserted' = [exInserted EXCEPT ![p] = @ + 1]
          /\ exPc' = [exPc EXCEPT ![p] = "idle"]
          /\ UNCHANGED exRetries
     ELSE /\ exRetries' = [exRetries EXCEPT ![p] = @ + 1]
          /\ exPc' = [exPc EXCEPT ![p] = "load"]
          /\ UNCHANGED <<exHead, exTouched, exInserted>>
  /\ UNCHANGED <<exchangeFrame, exProducers, exNext, exLink, exPrior,
                 exCleared, exBatch, exClears>>

\* clear( value ): return List{ head.exchange( value ) }.  With posts set the
\* value is a new sentinel, else it is null.
ExchangeClear(posts) ==
  /\ exProducers > 0
  /\ exCleared < MaxClears
  /\ LET value == IF posts THEN Tagged(SentinelOf(exCleared + 1), reverse)
                  ELSE TaggedPointer(NULL, normal)
     IN /\ exHead' = exchange(exHead, value)
        /\ exTouched' = Touch(0, exchange(exHead, value))
  /\ exBatch' = exHead
  /\ exCleared' = exCleared + 1
  /\ exClears' = [q \in Inserters |->
                    IF exPc[q] # "idle" THEN exClears[q] + 1
                    ELSE exClears[q]]
  /\ UNCHANGED <<exchangeFrame, exProducers, exNext, exPc, exLink, exPrior,
                 exInserted, exRetries>>

ExchangeNext ==
  \/ \E n \in Inserters : ExchangeSetup(n)
  \/ \E p \in Inserters : Insert(p)
  \/ \E p \in Inserters : InsertLoad(p)
  \/ \E p \in Inserters : InsertCas(p)
  \/ \E posts \in BOOLEAN : ExchangeClear(posts)

ExchangeSpec == Init /\ [][ExchangeNext]_vars

\* ------------------------------------------- intrusive.h TaggedPointer alone
\* Two TaggedPointer< Type, tp_bits > objects, each constructed from
\* nullptr, that are assigned, re-tagged, compared and cast.
tagRest == <<exprVars, raceVars, taskVars, head, pc, loopVars, sendVars,
             idleVars, mainVars, badAccess, producers, inserted, due,
             stored, handles, fanVars, meshVars, dispatches, pointerVars,
             exchangeVars, threadVars, joinVars>>

\* TaggedPointer< Type, bits >::mask, get() and tag() of a value.
maskOf(bits) == 2^bits - 1
getOf(v, bits) == v - (v % (maskOf(bits) + 1))
tagOf(v, bits) == v % (maskOf(bits) + 1)

\* The addresses of objects aligned to 2^bits, and the tags of bits bits.
Aligned(bits) == {k * 2^bits : k \in 0 .. MaxAddress}
TagsOf(bits) == 0 .. maskOf(bits)

\* operator == of two tagged pointers: a.value == b.value.
Equal(a, b) == a = b

\* The pointee type, with TagBits = Log2< alignof( Type ) >.
TagType(bits) ==
  /\ tp_bits = 0
  /\ tp_bits' = bits
  /\ UNCHANGED <<tagRest, tp_value, tp_built, tp_cast>>

\* TaggedPointer( Type * value_arg, TagType tag_arg ) and set(): value =
\* reinterpret_cast<uintptr_t>( value_arg ) | tag_arg.
TagConstruct(i, p, t) ==
  /\ tp_bits > 0
  /\ p \in Aligned(tp_bits)
  /\ t \in TagsOf(tp_bits)
  /\ tp_value' = [tp_value EXCEPT ![i] = BitOr(p, t)]
  /\ tp_built' = [tp_built EXCEPT ![i] = <<p, t>>]
  /\ UNCHANGED <<tagRest, tp_bits, tp_cast>>

\* TaggedPointer( std::nullptr_t ) and operator = ( std::nullptr_t ).
TagConstructNull(i) ==
  /\ tp_bits > 0
  /\ tp_value' = [tp_value EXCEPT ![i] = NULL]
  /\ tp_built' = [tp_built EXCEPT ![i] = <<NULL, 0>>]
  /\ UNCHANGED <<tagRest, tp_bits, tp_cast>>

\* tag( tag_arg ): value = reinterpret_cast<uintptr_t>( get() ) | tag_arg.
TagSet(i, t) ==
  /\ tp_bits > 0
  /\ t \in TagsOf(tp_bits)
  /\ tp_value' = [tp_value EXCEPT ![i] =
                    BitOr(getOf(tp_value[i], tp_bits), t)]
  /\ tp_built' = [tp_built EXCEPT ![i] = <<tp_built[i][1], t>>]
  /\ UNCHANGED <<tagRest, tp_bits, tp_cast>>

\* cast< OtherType, OtherBits >(): TaggedPointer< OtherType, OtherBits >{
\* static_cast< OtherType * >( get() ), tag() }.  The static_cast moves a
\* non-null pointer by the offset of the OtherType subobject, and the
\* object it then points to is aligned as OtherType requires.
TagCast(i, bits, offset) ==
  /\ tp_bits > 0
  /\ LET from == getOf(tp_value[i], tp_bits)
         to == IF from = NULL THEN NULL ELSE from + offset * 2^bits
     IN /\ to % 2^bits = 0
        /\ tp_cast' = [bits |-> bits,
                       value |-> BitOr(to, tagOf(tp_value[i], tp_bits)),
                       pointer |-> to,
                       tag |-> tagOf(tp_value[i], tp_bits)]
  /\ UNCHANGED <<tagRest, tp_bits, tp_value, tp_built>>

TagNext ==
  \/ \E bits \in 1 .. MaxBits : TagType(bits)
  \/ \E i \in Words : \E p \in Aligned(tp_bits) : \E t \in TagsOf(tp_bits) :
       TagConstruct(i, p, t)
  \/ \E i \in Words : TagConstructNull(i)
  \/ \E i \in Words : \E t \in TagsOf(tp_bits) : TagSet(i, t)
  \/ \E i \in Words : \E bits \in 1 .. MaxBits : \E offset \in 0 .. 1 :
       TagCast(i, bits, offset)

TagSpec == Init /\ [][TagNext]_vars

\* ------------------------------------------------------- detail::Join
\* One Join, one thread that calls wait() once, and join_events threads
\* that call notify() once each, as in the unit test and the README.
joinRest == <<exprVars, raceVars, taskVars, head, pc, loopVars, sendVars,
              idleVars, mainVars, badAccess, producers, inserted, due,
              stored, handles, fanVars, meshVars, dispatches, pointerVars,
              exchangeVars, threadVars, tagVars>>
\* The thread that calls wait(), as a holder of the mutex.
Waiter == MaxEvents + 1

\* Join::reset( events ), before any thread uses the Join.
JoinReset(n) ==
  /\ join_events = 0
  /\ join_events' = n
  /\ join_count' = n
  /\ UNCHANGED <<joinRest, join_mutex, join_wait, join_notify,
                 join_spurious>>

\* wait(): std::unique_lock<std::mutex> lock{ mutex }.
WaitLock ==
  /\ join_events > 0
  /\ join_wait = "idle"
  /\ join_mutex = NoThread
  /\ join_mutex' = Waiter
  /\ join_wait' = "check"
  /\ UNCHANGED <<joinRest, join_events, join_count, join_notify,
                 join_spurious>>

\* wait(): if( count.load() ) condition.wait( lock ), which releases the
\* mutex and blocks in one step; otherwise wait() returns and the lock is
\* released.
WaitCheck ==
  /\ join_wait = "check"
  /\ join_mutex' = NoThread
  /\ join_wait' = IF join_count # 0 THEN "waiting" ELSE "returned"
  /\ UNCHANGED <<joinRest, join_events, join_count, join_notify,
                 join_spurious>>

\* condition.wait may return without a notification.
WaitSpurious ==
  /\ join_wait = "waiting"
  /\ join_wait' = "woken"
  /\ join_spurious' = TRUE
  /\ UNCHANGED <<joinRest, join_events, join_count, join_mutex, join_notify>>

\* condition.wait returns: the mutex is locked again.
WaitWoken ==
  /\ join_wait = "woken"
  /\ join_mutex = NoThread
  /\ join_mutex' = Waiter
  /\ join_wait' = "leave"
  /\ UNCHANGED <<joinRest, join_events, join_count, join_notify,
                 join_spurious>>

\* wait() returns after condition.wait, whatever the count is: ~unique_lock.
WaitReturn ==
  /\ join_wait = "leave"
  /\ join_mutex' = NoThread
  /\ join_wait' = "returned"
  /\ UNCHANGED <<joinRest, join_events, join_count, join_notify,
                 join_spurious>>

\* notify(): does the caller go on to lock and notify, given the value
\* fetch_add returned.
lastEvent(old, amount) == old = amount

\* notify(): count.fetch_add( -amount ) == amount, with amount = 1.
NotifyFetch(i) ==
  /\ i <= join_events
  /\ join_notify[i] = "idle"
  /\ join_count' = join_count - 1
  /\ join_notify' = [join_notify EXCEPT ![i] =
                       IF lastEvent(join_count, 1) THEN "lock" ELSE "done"]
  /\ UNCHANGED <<joinRest, join_events, join_mutex, join_wait,
                 join_spurious>>

\* notify(): mutex.lock().
NotifyLock(i) ==
  /\ join_notify[i] = "lock"
  /\ join_mutex = NoThread
  /\ join_mutex' = i
  /\ join_notify' = [join_notify EXCEPT ![i] = "unlock"]
  /\ UNCHANGED <<joinRest, join_events, join_count, join_wait,
                 join_spurious>>

\* notify(): mutex.unlock().
NotifyUnlock(i) ==
  /\ join_notify[i] = "unlock"
  /\ join_mutex' = NoThread
  /\ join_notify' = [join_notify EXCEPT ![i] = "notify"]
  /\ UNCHANGED <<joinRest, join_events, join_count, join_wait,
                 join_spurious>>

\* notify(): condition.notify_all() wakes the thread blocked in wait().
NotifyAll(i) ==
  /\ join_notify[i] = "notify"
  /\ join_wait' = IF join_wait = "waiting" THEN "woken" ELSE join_wait
  /\ join_notify' = [join_notify EXCEPT ![i] = "done"]
  /\ UNCHANGED <<joinRest, join_events, join_count, join_mutex,
                 join_spurious>>

JoinNext ==
  \/ \E n \in 1 .. MaxEvents : JoinReset(n)
  \/ WaitLock
  \/ WaitCheck
  \/ WaitSpurious
  \/ WaitWoken
  \/ WaitReturn
  \/ \E i \in Notifiers : NotifyFetch(i)
  \/ \E i \in Notifiers : NotifyLock(i)
  \/ \E i \in Notifiers : NotifyUnlock(i)
  \/ \E i \in Notifiers : NotifyAll(i)

JoinSpec == Init /\ [][JoinNext]_vars

\* The Join when condition.wait happens not to return spuriously and every
\* thread keeps running.
JoinFair ==
  /\ WF_vars(WaitLock)
  /\ WF_vars(WaitCheck)
  /\ WF_vars(WaitWoken)
  /\ WF_vars(WaitReturn)
  /\ \A i \in Notifiers :
       /\ WF_vars(NotifyFetch(i))
       /\ WF_vars(NotifyLock(i))
       /\ WF_vars(NotifyUnlock(i))
       /\ WF_vars(NotifyAll(i))

JoinFairSpec == Init /\ [][JoinNext]_vars /\ JoinFair

ChainInit ==
  /\ references = [t \in Tasks |-> 1]
  /\ alive = [t \in Tasks |-> TRUE]
  /\ pending = [t \in Tasks |-> NULL]
  /\ variable = [t \in Tasks |-> NULL]
  /\ chainPc = [s \in Successors |-> "load"]
  /\ chainPrior = [s \in Successors |-> NULL]
  /\ casFailed = [s \in Successors |-> 0]
  /\ completePc = "idle"
  /\ waiting = NULL
  /\ dispatched = [t \in Tasks |-> 0]
  /\ dispatchedBy = [t \in Tasks |-> "none"]
  /\ evaluated = [t \in Tasks |-> 0]
  /\ linkOrder = <<>>
  /\ walkOrder = <<>>
  /\ size = NumWorkers
  /\ limit = MaxInject
  /\ ExecStart

ChainNext ==
  \/ \E s \in Successors : ChainLoad(s)
  \/ \E s \in Successors : ChainCas(s)
  \/ Apply
  \/ CompleteExchange
  \/ CompleteWalk
  \/ \E s \in Successors : EvaluateSuccessor(s)

ChainSpec == ChainInit /\ [][ChainNext]_vars

ChainQuiescent ==
  /\ \A s \in Successors : chainPc[s] = "done"
  /\ completePc = "done"

\* C1: whatever the interleaving of chain(T,S) with complete(T), every S is
\* dispatched at most once at any time and exactly once when both calls have
\* returned, by complete() if it was linked before the exchange and by chain()
\* if chain() observed self; T.pending is self afterwards.
C1_NoLostSuccessor ==
  /\ \A s \in Successors : dispatched[s] <= 1
  /\ \A s \in Successors :
       chainPc[s] = "done" /\ completePc = "done" => dispatched[s] = 1
  /\ \A s \in Successors :
       /\ dispatchedBy[s] = "chain" =>
            chainPc[s] = "done" /\ completePc # "idle"
       /\ dispatchedBy[s] = "complete" =>
            chainPc[s] = "done" /\ completePc # "idle"
  /\ ChainQuiescent => pending[Target] = sentinel(Target)

C1_Witness ==
  /\ ChainQuiescent
  /\ \E s \in Successors : dispatchedBy[s] = "chain" /\ casFailed[s] > 0
  /\ \E s \in Successors : dispatchedBy[s] = "complete" /\ casFailed[s] > 0

\* C2: once a task's pending equals self it stays self in every later step:
\* no chain(), no retried CAS and no step of complete() writes over it.
C2_MonotoneCompletion ==
  [][\A t \in Tasks :
       pending[t] = sentinel(t) => pending'[t] = sentinel(t)]_vars

C2_Witness ==
  /\ pending[Target] = sentinel(Target)
  /\ \E s \in Successors : chainPc[s] = "done" /\ casFailed[s] > 0
                           /\ dispatchedBy[s] = "chain"

\* ------------------------------------------------------------ observers
\* The tasks linked in the inbound buffers of worker w.
InboundTasks(w) ==
  UNION {Range(ListOf(next, head[inbound(w, j)])) : j \in 0 .. (size - 1)}

\* The objects made by inject and async, as opposed to wakeup sentinels.
NormalTasks == InjectArena \cup AsyncArena

\* The positions of a thread inside ~PrepareMessage (wake->evaluate()).
Waking == {"wake", "interrupt_lock", "interrupt_notify"}

\* The positions of a worker inside idle.yield().
Yielding == {"yield", "yield_sleep", "yield_wait", "yield_woken"}

\* The number of places that hold sentinel s: buffers, caches, batches, and
\* the senders that consumed it.
Holders(s) ==
  Cardinality({b \in Buffers : s \in Range(ListOf(next, head[b]))})
  + Cardinality({w \in Workers : s \in Range(ListOf(next, cache[w]))})
  + Cardinality({w \in Workers : s \in Range(ListOf(next, batch[w]))})
  + Cardinality({th \in Threads : pc[th] \in Waking
                                  /\ TaskOf(message[th]) = s})

\* C3: no lost wakeup.  Under fair scheduling and without shutdown, every
\* Normal task linked in an inbound buffer of worker w is eventually
\* evaluated by w, and a worker blocked in condition.wait while a Normal task
\* sits in one of its inbound buffers eventually leaves the wait.
C3_NoLostWakeup ==
  /\ \A t \in NormalTasks : \A w \in Workers :
       (alive[t] /\ w < size /\ t \in InboundTasks(w))
         ~> (evalCount[t] = 1 /\ evalBy[t] = w)
  /\ \A w \in Workers :
       (pc[w] = "yield_wait" /\ InboundTasks(w) \cap NormalTasks # {})
         ~> (pc[w] # "yield_wait")

C3_Witness ==
  \E w \in Workers :
    /\ pc[w] = "yield_wait"
    /\ InboundTasks(w) \cap NormalTasks # {}

\* C4: two-phase idle.  A worker is inside idle.yield() only after a pass run
\* with prepare_idle set that exchanged a Reverse sentinel into every inbound
\* buffer and evaluated nothing, following a pass that evaluated nothing; a
\* pass that evaluated a task leaves prepare_idle false; and the pass after
\* yield() returned true runs with prepare_idle false.
C4_TwoPhaseIdle ==
  /\ [](\A w \in Workers :
          /\ pc[w] \in Yielding =>
               /\ prepare_idle[w]
               /\ posted[w] = size
               /\ processed[w] = 0
               /\ lastProcessed[w] = 0
          /\ lastProcessed[w] > 0 => ~prepare_idle[w])
  /\ [][\A w \in Workers :
          pc[w] \in Yielding /\ pc'[w] = "clear" => ~prepare_idle'[w]]_vars

C4_Witness ==
  \E w \in Workers :
    /\ pc[w] = "yield_wait"
    /\ counter > 0
    /\ posted[w] = size
    /\ lastProcessed[w] = 0

\* C5: affinity.  A live task made by inject( i, fn ) or async( i, fn ) is
\* linked only in an inbound buffer of worker i, which is an inbound buffer
\* of no other worker, and the thread that evaluates it is worker i.
C5_Affinity ==
  /\ [](\A t \in NormalTasks : \A b \in Buffers :
          alive[t] /\ t \in Range(ListOf(next, head[b])) =>
            /\ \E j \in 0 .. (size - 1) : b = inbound(address[t], j)
            /\ \A w \in 0 .. (size - 1) : \A j \in 0 .. (size - 1) :
                 w # address[t] => b # inbound(w, j))
  /\ [][\A t \in NormalTasks :
          evalCount'[t] = evalCount[t] + 1 => evalBy'[t] = address[t]]_vars

C5_Witness ==
  /\ evalCount[1] = 1 /\ evalBy[1] = 0
  /\ evalCount[MaxCalls + 1] = 1 /\ evalBy[MaxCalls + 1] = 1

\* C6 as stated: every object that is deleted has been evaluated exactly once.
C6_ExactlyOnce ==
  [][\A t \in Pool : alive[t] /\ ~alive'[t] => evalCount'[t] = 1]_vars

\* C6, amended: no object is evaluated twice or after its deletion, and an
\* object is deleted without an evaluation only by ~Worker, which releases
\* what is left in the inbound buffers: the sentinels no producer consumed
\* and the Normal tasks no pass drained.
C6_AtMostOnce ==
  [][\A t \in Pool :
       /\ evalCount'[t] <= 1
       /\ evalCount'[t] = evalCount[t] + 1 => alive[t]
       /\ alive[t] /\ ~alive'[t] /\ evalCount'[t] = 0 =>
            /\ pc[Main] = "destroy"
            /\ t \in Range(Residual(joinIndex, 0))]_vars

C6_Witness ==
  \E w \in Workers : \E s \in SentinelArena(w) :
    /\ pc[w] = "done"
    /\ ~alive[s] /\ evalCount[s] = 1
    /\ counter = created /\ created > 0

\* C7: every live sentinel of worker w is held in exactly one place (one
\* buffer of w, w's cache, w's batch, or one sender that consumed it), a
\* deleted one in none; a thread inside wake->evaluate() holds a live
\* sentinel it consumed; and armed is cleared only by such a thread for the
\* worker that made the sentinel.
C7_SentinelExclusive ==
  /\ [](/\ \A w \in Workers : \A s \in SentinelArena(w) :
             /\ Holders(s) = (IF alive[s] THEN 1 ELSE 0)
             /\ alive[s] => function[s] = <<"interrupt", w>>
             /\ \A b \in Buffers :
                  s \in Range(ListOf(next, head[b])) =>
                    \E j \in 0 .. (size - 1) : b = inbound(w, j)
        /\ \A th \in Threads :
             pc[th] \in Waking =>
               /\ tag(message[th]) = reverse
               /\ alive[TaskOf(message[th])]
               /\ \E w \in Workers : TaskOf(message[th]) \in SentinelArena(w))
  /\ [][\A w \in Workers :
          armed[w] /\ ~armed'[w] =>
            \E th \in Threads :
              /\ pc[th] = "wake" /\ pc'[th] # "wake"
              /\ TaskOf(message[th]) \in SentinelArena(w)]_vars

C7_Witness ==
  /\ pc[Main] = "wake"
  /\ pc[0] = "send_cas"
  /\ prior[0] = message[Main]

\* C8 as stated: after destruction no object is allocated and every count is
\* back at zero.
C8_Balanced ==
  pc[Main] = "destroyed" =>
    \A t \in Pool : ~alive[t] /\ references[t] = 0

\* The part of C8 that holds: after destruction no object is allocated and
\* none was used after its deletion; the count of an object that was
\* evaluated ends one below zero, because ~Expression releases pending,
\* which is the object itself once complete() has run.
C8_NoTaskRemains ==
  /\ ~badAccess
  /\ pc[Main] = "destroyed" =>
       \A t \in Pool : ~alive[t] /\ references[t] = 0 - evalCount[t]

C8_Witness ==
  /\ pc[Main] = "destroyed"
  /\ created = 2
  /\ counter = 2
  /\ \E w \in Workers : \E s \in SentinelArena(w) : evalCount[s] = 1

\* C9: Executor executor{ 1 }; inject( 0, counter += 1 ); once the Executor
\* is destroyed the injected function has run exactly once.
C9_SmokeCounter ==
  (pc[Main] = "destroyed" /\ injected = 1 /\ function[1] = Leaf) =>
    (counter = 1 /\ evalCount[1] = 1)

\* C10: cooperative shutdown.  A worker whose idle object was disabled
\* eventually leaves its loop; the loop is left only by idle.yield()
\* returning false, with enabled false; and once ~ThreadModel has started,
\* every join returns and the Executor is destroyed.
C10_CooperativeShutdown ==
  /\ \A w \in Workers : (~enabled[w]) ~> (pc[w] = "done")
  /\ [][\A w \in Workers :
          pc[w] # "done" /\ pc'[w] = "done" =>
            pc[w] \in {"yield", "yield_woken"} /\ ~enabled[w]]_vars
  /\ (pc[Main] = "enable") ~> (pc[Main] = "destroyed")

C10_Witness ==
  /\ pc[Main] = "join"
  /\ pc[joinIndex] = "yield_woken"
  /\ ~enabled[joinIndex]
\* ------------------------------------------------------- idle::Wait
\* The idle object a thread inside interrupt() acts on.
InterruptTarget(th) == function[TaskOf(message[th])][2]

\* C11 as stated: yield() blocks until an interrupt is observed or the
\* caller is disabled, so a thread leaves condition.wait only in the step of
\* a condition.notify_one() of interrupt() or enable().
C11_BlocksUntilInterrupt ==
  [][\A w \in Workers :
       pc[w] = "yield_wait" /\ pc'[w] # "yield_wait" =>
         \/ \E th \in Threads :
              pc[th] = "interrupt_notify" /\ InterruptTarget(th) = w
         \/ pc[Main] = "enable_notify" /\ joinIndex = w]_vars

\* C11, amended: no lost interrupt.  A worker inside yield() whose armed
\* flag was cleared by an interrupt(), or whose idle object was disabled,
\* leaves yield(); yield() returns true exactly when enabled is true at the
\* return and leaves armed set; condition.wait may also return without a
\* notification.
C11_NoLostInterrupt ==
  /\ \A w \in Workers :
       (pc[w] \in Yielding /\ (~armed[w] \/ ~enabled[w]))
         ~> (pc[w] \notin Yielding)
  /\ [][\A w \in Workers :
          pc[w] \in Yielding /\ pc'[w] \notin Yielding =>
            /\ pc'[w] = (IF enabled[w] THEN "clear" ELSE "done")
            /\ enabled[w] => armed'[w]]_vars

C11_Witness ==
  \E w \in Workers : \E th \in Threads :
    /\ pc[w] = "yield_wait"
    /\ ~armed[w]
    /\ pc[th] = "interrupt_lock"
    /\ InterruptTarget(th) = w

\* ------------------------------------------- Exchange::clear and insert
\* The buffer a sender is inserting into holds exactly the sender's task,
\* with a null next, once the insert has succeeded.
HoldsOnly(th) ==
  /\ head'[sendBuf[th]] = sendTask[th]
  /\ ListOf(next', head'[sendBuf[th]]) = <<TaskOf(sendTask[th])>>
  /\ next'[TaskOf(sendTask[th])] = TaggedPointer(NULL, normal)

\* C13: round trip through a sentinel.  An insert of task T that succeeds
\* on a buffer whose head is the Reverse sentinel posted by clear( sentinel )
\* leaves the buffer holding exactly [T] with T.next null, which is what an
\* insert of T into the empty buffer leaves; the sentinel is not reachable
\* from the buffer any more and is held by the sender alone.
C13_SentinelRoundTrip ==
  [][\A th \in Threads :
       pc[th] = "send_cas" /\ pc'[th] \notin {"send_cas", "send_load"} =>
         /\ tag(prior[th]) = reverse =>
              /\ HoldsOnly(th)
              /\ pc'[th] = "wake"
              /\ message'[th] = prior[th]
              /\ \A b \in Buffers :
                   TaskOf(prior[th]) \notin Range(ListOf(next', head'[b]))
         /\ empty(prior[th]) => HoldsOnly(th)]_vars

C13_Witness ==
  \E th \in Threads : \E b \in Buffers : \E t \in NormalTasks :
    /\ pc[th] = "wake"
    /\ alive[TaskOf(message[th])]
    /\ alive[t]
    /\ ListOf(next, head[b]) = <<t>>
    /\ next[t] = TaggedPointer(NULL, normal)
    /\ evalCount[t] = 0

\* The threads inside interrupt() on idle object w that hold signal = true:
\* past the exchange, before the end of notify_one.
Signalling(w) ==
  {th \in Threads : pc[th] \in {"interrupt_lock", "interrupt_notify"}
                    /\ InterruptTarget(th) = w}

\* C12 as stated: between two consecutive returns of yield() on one idle
\* object at most one interrupt() takes the mutex and notifies.
C12_OneNotifyPerReturn ==
  \A w \in Workers : notified[w] <= 1

\* C12, amended: between two consecutive returns of yield() at most one
\* interrupt() exchanges armed from true to false, because only the return
\* of yield() sets armed; an interrupt() that exchanges false for false
\* returns without locking or notifying; an interrupt() locks and notifies
\* only after it exchanged true for false, which may have been before the
\* last return of yield().
C12_Debounce ==
  [][\A w \in Workers :
       /\ ~armed[w] /\ armed'[w] =>
            pc[w] \in Yielding /\ pc'[w] \notin Yielding
       /\ \A th \in Threads :
            pc[th] = "wake" /\ pc'[th] # "wake"
            /\ InterruptTarget(th) = w =>
              /\ ~armed'[w]
              /\ pc'[th] = "interrupt_lock" <=> armed[w]
              /\ ~armed[w] =>
                   /\ UNCHANGED <<mutex, notified>>
                   /\ pc'[w] = pc[w] \/ th = w
       /\ notified'[w] > notified[w] =>
            \E th \in Signalling(w) : pc'[th] \notin Waking]_vars

C12_Witness ==
  \E w \in Workers : \E a, b \in Threads :
    /\ pc[a] = "interrupt_lock" /\ InterruptTarget(a) = w
    /\ pc[b] = "wake" /\ InterruptTarget(b) = w
    /\ ~armed[w]

\* The workers at the two ends of a buffer: Direct::Direct hands
\* buffer_for_edge( i, j ) to node i as the remote of its connection j and
\* to node j as the local of its connection i.
Producer(b) ==
  CHOOSE i \in 0 .. (size - 1) :
    \E j \in 0 .. (size - 1) : buffer_for_edge(i, j) = b
Consumer(b) ==
  CHOOSE j \in 0 .. (size - 1) :
    \E i \in 0 .. (size - 1) : buffer_for_edge(i, j) = b

\* A step that changes the head of a buffer and is not the CAS of an insert
\* is the receive of the worker at the consuming end, or it is ~Worker
\* after every thread was joined.
OnlyOwnerClears ==
  \A b \in Buffers :
    (/\ head'[b] # head[b]
     /\ ~\E th \in Threads : /\ pc[th] = "send_cas"
                             /\ sendBuf[th] = b
                             /\ head'[b] = sendTask[th])
    => \/ /\ pc[Consumer(b)] = "clear"
          /\ buffer_for_edge(conn[Consumer(b)], Consumer(b)) = b
       \/ /\ pc[Main] = "destroy"
          /\ \A w \in Workers : pc[w] \in {"done", "none"}

\* C17 as stated: at most one thread ever performs insert on a buffer, and
\* only the worker that owns the buffer as inbound clears it while the
\* workers run.
C17_SingleProducer ==
  [][/\ \A b \in Buffers : Cardinality(producers'[b]) <= 1
     /\ OnlyOwnerClears]_vars

\* The part of C17 that holds: the buffer of an edge between two workers is
\* inserted into by the worker at its producing end only; a loopback buffer
\* is inserted into by its worker and by the threads that call inject, and
\* by nobody else; only the worker at the consuming end clears a buffer
\* while the workers run.
C17_ProducersByTopology ==
  [][/\ \A b \in Buffers :
          producers'[b] \subseteq
            ({Producer(b)} \cup
               (IF Producer(b) = Consumer(b) THEN {Main} ELSE {}))
     /\ OnlyOwnerClears]_vars

\* A loopback buffer that the injecting thread and its own worker have both
\* inserted into, and that the worker has cleared since.
C17_Witness ==
  \E w \in Workers :
    /\ producers[outbound(w, w)] = {w, Main}
    /\ \E t \in AsyncArena : evalCount[t] = 1 /\ evalBy[t] = w

\* A worker blocked in condition.wait with a Reverse sentinel at the head
\* of each of its inbound buffers.
Asleep(w) ==
  /\ pc[w] = "yield_wait"
  /\ \A j \in 0 .. (size - 1) : tag(head[inbound(w, j)]) = reverse

\* The step in which the insert of inject( 0, f ), f a plain function,
\* returns.
InjectReturns ==
  /\ pc[Main] = "send_cas"
  /\ pc'[Main] \notin {"send_cas", "send_load"}
  /\ sendBuf[Main] = outbound(0, 0)
  /\ function[TaskOf(sendTask[Main])] = Leaf

\* C16: with every worker asleep behind its sentinels, the insert of
\* inject( 0, f ) consumes the sentinel of worker 0's loopback buffer and no
\* other one, and the sender goes on to interrupt worker 0's idle object; a
\* sleeping worker whose inbound buffers nobody has inserted into stays
\* asleep, armed and behind its sentinels, unless condition.wait returns
\* spuriously; and f is evaluated by worker 0.
C16_SleepWake ==
  /\ [][/\ (InjectReturns /\ \A w \in Workers : Asleep(w))
            => /\ pc'[Main] = "wake"
               /\ tag(message'[Main]) = reverse
               /\ InterruptTarget(Main)' = 0
               /\ \A b \in Buffers \ {outbound(0, 0)} : head'[b] = head[b]
               /\ next'[TaskOf(head'[outbound(0, 0)])] =
                    TaggedPointer(NULL, normal)
               /\ \A w \in Workers : pc'[w] = pc[w] /\ armed'[w] = armed[w]
        /\ \A w \in Workers :
             (/\ Asleep(w)
              /\ spurious' = spurious
              /\ \A j \in 0 .. (size - 1) : producers'[inbound(w, j)] = {})
             => Asleep(w)' /\ armed'[w] /\ notified'[w] = 0]_vars
  /\ \A t \in InjectArena :
       (/\ \A w \in Workers : Asleep(w)
        /\ pc[Main] = "send_load"
        /\ sendTask[Main] = Tagged(t, normal)
        /\ sendBuf[Main] = outbound(0, 0)
        /\ function[t] = Leaf)
       ~> (evalCount[t] = 1 /\ evalBy[t] = 0)

\* Every worker was asleep, the inject has consumed the sentinel of worker
\* 0's loopback buffer and is about to notify worker 0; the other workers
\* sleep on behind their sentinels.
C16_Witness ==
  /\ pc[Main] = "interrupt_notify"
  /\ InterruptTarget(Main) = 0
  /\ ~empty(head[outbound(0, 0)])
  /\ function[TaskOf(head[outbound(0, 0)])] = Leaf
  /\ pc[0] = "yield_wait"
  /\ \A w \in Workers \ {0} : Asleep(w)
  /\ spurious = 0

\* The messages a buffer holds, its head first.
Held(b) == ListOf(next, head[b])

\* C19: a buffer holds, and clear returns, the messages inserted since the
\* previous clear (the insert that consumes a sentinel starts the list
\* anew), the most recently inserted one first; a Reverse sentinel that the
\* previous clear posted and no insert consumed comes back alone; and
\* batch.remove() returns the messages of the batch head first, that is in
\* reverse order of insertion.
C19_LifoBatches ==
  /\ \A b \in Buffers : Held(b) = Batch(head[b], inserted[b])
  /\ \A b \in Buffers : tag(head[b]) = reverse => inserted[b] = <<>>
  /\ \A w \in Workers : pc[w] = "batch" => ListOf(next, batch[w]) = due[w]

\* A worker has cleared a buffer into which two messages had been inserted
\* and holds them as its batch, the later one first.
C19_Witness ==
  \E w \in Workers :
    /\ pc[w] = "batch"
    /\ Len(due[w]) = 2
    /\ tag(batch[w]) = normal
    /\ evalCount[due[w][1]] = 0
    /\ created = 2
    /\ due[w][1] > due[w][2]

\* C20: a worker takes its connections in increasing index and goes on to
\* the next one only when the batch of the current one is used up; it
\* clears an inbound buffer only as the connection at hand and with no
\* message of an earlier batch left; the task it evaluates is always the
\* first one still due of the current batch, which is the most recently
\* inserted one.  So of two tasks of one buffer the one of the earlier batch
\* is evaluated first, and within one batch the one sent later.
C20_EvaluationOrder ==
  [][\A w \in Workers :
       /\ conn'[w] # conn[w]
          => /\ due'[w] = <<>>
             /\ \/ conn'[w] = conn[w] + 1 /\ pc'[w] = "clear"
                \/ conn[w] = size - 1 /\ conn'[w] = 0
       /\ \A j \in 0 .. (size - 1) :
            (/\ head'[buffer_for_edge(j, w)] # head[buffer_for_edge(j, w)]
             /\ producers'[buffer_for_edge(j, w)] =
                  producers[buffer_for_edge(j, w)]
             /\ inserted'[buffer_for_edge(j, w)] = <<>>)
            => pc[w] = "clear" /\ j = conn[w] /\ due[w] = <<>>
       /\ \A t \in Pool :
            (/\ evalCount'[t] = evalCount[t] + 1
             /\ evalBy'[t] = w
             /\ function[t][1] # "interrupt")
            => /\ pc[w] = "batch"
               /\ due[w] # <<>>
               /\ t = Head(due[w])
               /\ due'[w] = Tail(due[w])
       /\ due'[w] # due[w]
          => \/ pc[w] = "clear" /\ due[w] = <<>>
             \/ due[w] # <<>> /\ due'[w] = Tail(due[w])]_vars

\* Two tasks injected one after the other came to worker 1 in one batch of
\* its second connection; the one injected later has been evaluated, the
\* earlier one is still due.
C20_Witness ==
  /\ pc[1] = "batch"
  /\ conn[1] = 1
  /\ due[1] = <<1>>
  /\ evalCount[1] = 0
  /\ evalCount[2] = 1
  /\ evalBy[2] = 1

\* C18: a successor is evaluated only when the function of its predecessor
\* has returned, the result is stored and pending == self, and then its
\* variable refers to the predecessor, which still exists; it is dispatched
\* only by the walk of the predecessor's complete() or by its own chain()
\* call at the load that observed pending == self.
C18_DependencyOrder ==
  [][\A s \in Successors :
       /\ evaluated'[s] > evaluated[s]
          => /\ stored
             /\ pending[Target] = Target
             /\ variable[s] = Target
             /\ alive[Target]
       /\ dispatched'[s] > dispatched[s]
          => /\ stored
             /\ pending[Target] = Target
             /\ variable'[s] = Target
             /\ \/ completePc = "walk" /\ waiting = s /\ chainPc[s] = "done"
                \/ completePc # "idle" /\ chainPc[s] = "load"]_vars

\* One successor was dispatched by complete() and one by chain(), and both
\* have been evaluated.
C18_Witness ==
  /\ \E s \in Successors : dispatchedBy[s] = "chain" /\ evaluated[s] = 1
  /\ \E s \in Successors : dispatchedBy[s] = "complete" /\ evaluated[s] = 1

\* The Pointers that refer to task t: the client's handle, the pending
\* field of a task that is not complete, and the variable fields.
Pointers(t) ==
  (IF t \in handles THEN 1 ELSE 0)
  + Cardinality({u \in Pool : alive[u] /\ u # t /\ pending[u] = t})
  + Cardinality({u \in Pool : alive[u] /\ variable[u] = t})

\* C15: in a promise graph under immediate dispatch the count of every task
\* that exists is the number of Pointers that refer to it, so no task is
\* destroyed while it is referenced and none is destroyed twice; no Pointer
\* of the client or of a task refers to a destroyed task; and once every
\* handle is dropped no task is left with a count: every task that was made
\* is destroyed.
C15_LeakFree ==
  /\ \A t \in Pool :
       /\ alive[t] => references[t] = Pointers(t) /\ references[t] > 0
       /\ ~alive[t] => t \notin handles
       /\ alive[t] /\ pending[t] # NULL => alive[pending[t]]
       /\ alive[t] /\ variable[t] # NULL => alive[variable[t]]
       /\ alive[t] => t <= created
  /\ handles = {} => \A t \in Pool : ~alive[t]

\* The graph of the example: every one of the six tasks was made, evaluated
\* and destroyed, and the client holds no handle any more.
C15_Witness ==
  /\ created = MaxGraph
  /\ handles = {}
  /\ \A t \in 1 .. MaxGraph : ~alive[t] /\ pending[t] = t

\* C14: in the fan-out scenario no stage of a chain is evaluated twice, a
\* step that evaluates stage k+1 of a chain finds stage k of that chain
\* evaluated once, completed (pending == self) and set as its argument, and
\* once the last stage of all chains has run every stage of every chain has
\* run exactly once, so that count is the number of workers and followup
\* twice that number.
C14_FanOut ==
  [][/\ \A i \in Workers, k \in 0 .. (Stages - 1) :
          LET t == ChainTask(i, k)
              p == ChainTask(i, k - 1)
          IN /\ evalCount'[t] <= 1
             /\ k > 0 /\ evalCount'[t] > evalCount[t] =>
                  /\ evalCount[p] = 1
                  /\ alive[p] /\ pending[p] = p
                  /\ variable[t] = p
     /\ joined' = size =>
          /\ count' = size
          /\ followup' = 2 * size
          /\ \A i \in Workers, k \in 0 .. (Stages - 1) :
               evalCount'[ChainTask(i, k)] = 1
    ]_vars

\* The join of the test is complete: the last stage of every chain has
\* run, both counters have their final values, and the tasks of the chains
\* and the injected task are destroyed.
C14_Witness ==
  /\ joined = size
  /\ count = size
  /\ followup = 2 * size
  /\ \A t \in Pool : function[t][1] \in {"fan", "stage"} => ~alive[t]
  /\ \A i \in Workers, k \in 0 .. (Stages - 1) :
       evalBy[ChainTask(i, k)] = ThenAddress(i, k)

\* The connections constructed so far, as the set of (node, index) pairs:
\* those of the nodes already emplaced and those of the vector being built.
Built ==
  {<<i, j>> \in (0 .. (size - 1)) \X (0 .. (size - 1)) :
     i < node_index \/ (i = node_index /\ j < edge_index)}
connection(i, j) ==
  IF i < node_index THEN nodes[i + 1][j + 1] ELSE connections[j + 1]

\* C21: in a mesh of any node count, whenever connection j of node i and
\* connection i of node j both exist, the outbound (remote) buffer of the
\* one is the inbound (local) buffer of the other and vice versa, and the
\* loopback connection of node i has the buffer (N - 1) * N + i on both
\* sides.
C21_MeshSymmetry ==
  \A e \in Built :
    LET i == e[1]
        j == e[2]
    IN /\ <<j, i>> \in Built =>
            /\ connection(i, j).remote = connection(j, i).local
            /\ connection(i, j).local = connection(j, i).remote
       /\ i = j =>
            /\ connection(i, i).remote = (size - 1) * size + i
            /\ connection(i, i).local = (size - 1) * size + i

\* A mesh of the largest node count is complete.
C21_Witness ==
  /\ size = MaxNodes
  /\ node_index = size
  /\ Len(nodes) = size
  /\ connection(0, size - 1).remote # connection(0, size - 1).local

\* C22: for every node count N >= 1 the outbound buffers of distinct
\* directed edges (src, dst) are distinct and every one of them lies in
\* 0 .. N * N - 1, the allocation; so that the N * N edges of the complete
\* mesh use every buffer exactly once.  With N = 1 the one edge is the
\* loopback and its buffer is 0.
C22_MeshBijection ==
  /\ Allocation(size) = size * size
  /\ \A e \in Built :
       /\ connection(e[1], e[2]).remote \in 0 .. (Allocation(size) - 1)
       /\ connection(e[1], e[2]).remote = buffer_for_edge(e[1], e[2])
       /\ \A f \in Built :
            connection(e[1], e[2]).remote = connection(f[1], f[2]).remote
              => e = f
  /\ node_index = size =>
       {connection(e[1], e[2]).remote : e \in Built} = 0 .. (size * size - 1)
  /\ size = 1 /\ Built # {} => connection(0, 0).remote = 0

\* A complete mesh of at least three nodes, where low > 0 occurs.
C22_Witness ==
  /\ size = MaxNodes
  /\ node_index = size
  /\ Cardinality({connection(e[1], e[2]).remote : e \in Built}) = size * size

\* Every thread has come to rest: the owning thread's inject has returned
\* and every worker is blocked in condition.wait.
AllAtRest ==
  /\ injected = limit
  /\ pc[Main] = "main"
  /\ \A w \in Workers : pc[w] = "yield_wait"

Referrers(t) ==
  Cardinality({p \in Locals : constructed[p] /\ object[p] = t}) + raw[t]

\* C24: after any sequence of Pointer constructions, copies, moves,
\* assignments and destructions and of acquire and release calls on raw
\* pointers, the count of every object made so far is the number of
\* Pointers and raw references that refer to it, the object exists exactly
\* while that number is positive, it is destroyed in the step that takes
\* its count from 1 to 0, its Deleter runs at most once, and no destroyed
\* object is used.
C24_PointerLifecycle ==
  [][\A t \in 1 .. MaxObjects :
       /\ t <= created' =>
            /\ references'[t] = Referrers(t)'
            /\ alive'[t] <=> Referrers(t)' > 0
            /\ deletions'[t] = IF alive'[t] THEN 0 ELSE 1
       /\ t > created' => ~alive'[t] /\ deletions'[t] = 0
       /\ alive[t] /\ ~alive'[t] =>
            /\ references[t] = 1 /\ references'[t] = 0
            /\ op'[1] \in {"destruct", "assign_new", "assign_null",
                           "assign_copy", "assign_move", "release", "usurp"}
       /\ ~badAccess'
    ]_vars

\* The end of the lifecycle scenario of the unit test: every object that
\* was made has been destroyed, the last one by a move assignment, and
\* both Pointers are empty.
C24_Witness ==
  /\ created = MaxObjects
  /\ \A t \in 1 .. MaxObjects : ~alive[t] /\ deletions[t] = 1
  /\ \A p \in Locals : constructed[p] /\ object[p] = NULL
  /\ op[1] = "assign_move"

\* C25: usurp( x ) on an empty Pointer makes the Pointer refer to x and
\* leak() empties the Pointer and returns the object it referred to; neither
\* changes the count of any object nor destroys one, and leak() on an empty
\* Pointer returns null and changes nothing.
C25_TransferKeepsCount ==
  [][LET p == op'[2]
     IN /\ op'[1] = "usurp" /\ object[p] = NULL =>
             /\ object' = [object EXCEPT ![p] = op'[3]]
             /\ references' = references
             /\ alive' = alive
             /\ deletions' = deletions
        /\ op'[1] = "leak" =>
             /\ op'[3] = object[p]
             /\ object' = [object EXCEPT ![p] = NULL]
             /\ references' = references
             /\ alive' = alive
             /\ deletions' = deletions
             /\ object[p] = NULL => raw' = raw
    ]_vars

\* The end of the second scenario of the unit test before release( val ):
\* an object with one reference, held through a raw pointer, after leak()
\* was called on an empty Pointer.
C25_Witness ==
  /\ op = <<"leak", 1, NULL>>
  /\ constructed[1] /\ object[1] = NULL
  /\ created = 1
  /\ alive[1] /\ references[1] = 1 /\ raw[1] = 1
\* The list of waiting tasks that starts at task h and follows the variable
\* fields, as complete() walks it; it ends at null.
RECURSIVE Waiters(_, _)
Waiters(h, fuel) ==
  IF h = NULL \/ h = Target \/ fuel = 0 THEN <<>>
  ELSE <<h>> \o Waiters(variable[h], fuel - 1)
WaitersOf(h) == Waiters(h, NumChainers)

\* C26: a chain() onto Target that observes pending == self does not link
\* the successor: it sets the successor's variable to Target and dispatches
\* it in the same step, on the chaining thread, and leaves pending at self;
\* a successor dispatched by chain() is never in a list of waiting tasks.
C26_ChainAfterCompletion ==
  [][\A s \in Successors :
       /\ (chainPc[s] = "load" /\ chainPc'[s] # "load"
           /\ pending[Target] = Target)
            => /\ chainPc'[s] = "done"
               /\ variable'[s] = Target
               /\ dispatched'[s] = dispatched[s] + 1
               /\ dispatchedBy'[s] = "chain"
               /\ pending'[Target] = Target
               /\ linkOrder' = linkOrder
       /\ (pending[Target] = Target /\ completePc # "start")
            => /\ pending'[Target] = Target
               /\ linkOrder' = linkOrder
       /\ dispatchedBy'[s] = "chain"
            => /\ s \notin Range(linkOrder')
               /\ pending'[Target] = Target]_vars

C26_Witness ==
  /\ pending[Target] = Target
  /\ linkOrder # <<>>
  /\ \E s \in Successors :
       /\ dispatchedBy[s] = "chain"
       /\ variable[s] = Target
       /\ evaluated[s] = 0
       /\ casFailed[s] = 0

\* C27: the successors linked before the exchange of complete() are what
\* complete() dispatches: what it has dispatched so far, followed by what is
\* still waiting, is the linked successors in reverse order of linking;
\* each is dispatched exactly once, by complete() and with variable set to
\* Target; complete() dispatches nothing else, and when it is done the
\* variable field of no linked successor refers to another successor.
C27_FanOutOnCompletion ==
  /\ completePc \in {"idle", "start"} => walkOrder = <<>>
  /\ completePc = "walk"
       => walkOrder \o WaitersOf(waiting) = Reversed(linkOrder)
  /\ completePc = "done"
       => /\ walkOrder = Reversed(linkOrder)
          /\ \A s \in Range(linkOrder) : variable[s] \in {NULL, Target}
  /\ \A i \in DOMAIN walkOrder :
       /\ dispatched[walkOrder[i]] = 1
       /\ dispatchedBy[walkOrder[i]] = "complete"
       /\ evaluated[walkOrder[i]] = 0 => variable[walkOrder[i]] = Target
       /\ evaluated[walkOrder[i]] = 1 => variable[walkOrder[i]] = NULL
  /\ \A s \in Successors :
       dispatchedBy[s] = "complete" => s \in Range(walkOrder)

C27_Witness ==
  /\ completePc = "done"
  /\ Len(linkOrder) = NumChainers
  /\ walkOrder = Reversed(linkOrder)
  /\ linkOrder[1] > linkOrder[2]
  /\ \A s \in Successors : dispatched[s] = 1 /\ variable[s] = Target

\* The uses of the variable field by the phase of its task: a successor
\* that is linked and not yet dispatched holds the successor linked before
\* it (null for the first one); a dispatched successor holds Target until
\* its evaluation ends, and null afterwards.
VariablePhases ==
  /\ \A i \in DOMAIN linkOrder :
       dispatched[linkOrder[i]] = 0
         => variable[linkOrder[i]] =
              IF i = 1 THEN NULL ELSE linkOrder[i - 1]
  /\ pending[Target] # Target
       => WaitersOf(pending[Target]) = Reversed(linkOrder)
  /\ \A s \in Successors :
       /\ dispatched[s] > evaluated[s] => variable[s] = Target
       /\ evaluated[s] > 0 => variable[s] = NULL

\* C28: the variable field is the link to the next waiting task while its
\* task is linked, the predecessor from dispatch to the end of the
\* evaluation and null after complete(); a failed CAS of chain() sets the
\* successor's variable back to null and changes no reference count.
C28_DualUseOfVariable ==
  /\ VariablePhases
  /\ [][/\ VariablePhases'
        /\ \A s \in Successors :
             casFailed'[s] # casFailed[s]
               => /\ variable[s] = chainPrior[s]
                  /\ variable'[s] = NULL
                  /\ references' = references
                  /\ alive' = alive]_vars

C28_Witness ==
  \E a, b \in Successors :
    /\ casFailed[a] > 0
    /\ a \in Range(linkOrder)
    /\ dispatched[a] = 0
    /\ variable[a] \in Successors
    /\ chainPrior[a] = variable[a]
    /\ evaluated[b] = 1
    /\ variable[b] = NULL

\* Where worker w is in Worker::operator() and Node::operate.
Position(w) ==
  <<pc[w], conn[w], batch[w], processed[w], prepare_idle[w],
    lastProcessed[w], posted[w]>>

\* C29: the value a worker exchanges into an inbound buffer is null with
\* tag Normal, with nothing allocated and the cache untouched, when the
\* worker is not preparing idle; when it is, the value is a live task with
\* tag Reverse whose next link is null and whose function interrupts the
\* worker's own idle object: the head of the sentinel cache if the cache is
\* not empty, with nothing allocated, and a newly allocated task otherwise.
\* While a worker prepares idle its cache changes only by giving up its head.
C29_MakeSentinel ==
  /\ [][\A w \in Workers :
          pc[w] = "clear" /\ Position(w)' # Position(w) =>
            LET word == head'[inbound(w, conn[w])]
                s == TaskOf(word)
            IN /\ ~prepare_idle[w] =>
                    /\ word = TaggedPointer(NULL, normal)
                    /\ alive' = alive
                    /\ references' = references
                    /\ cache' = cache
               /\ prepare_idle[w] =>
                    /\ ~empty(word)
                    /\ tag(word) = reverse
                    /\ alive'[s]
                    /\ next'[s] = NULL
                    /\ function'[s] = <<"interrupt", w>>
                    /\ ~empty(cache[w]) =>
                         /\ word = cache[w]
                         /\ cache'[w] = next[s]
                         /\ alive[s]
                         /\ alive' = alive
                         /\ references' = references
                    /\ empty(cache[w]) =>
                         /\ ~alive[s]
                         /\ \A t \in Pool \ {s} : alive'[t] = alive[t]
                         /\ cache' = cache]_vars
  /\ [][\A w \in Workers :
          prepare_idle[w] /\ pc[w] \in {"clear", "batch"}
          /\ cache'[w] # cache[w]
            => ~empty(cache[w]) /\ cache'[w] = next[TaskOf(cache[w])]]_vars

\* A worker in a pass that prepares idle has exchanged a sentinel into its
\* first buffer and still has a sentinel in its cache.  The cache does not
\* grow during such a pass (the heads it takes out were put in by a pass
\* that did not prepare idle), so the sentinel in the first buffer came from
\* the cache.
C29_Witness ==
  \E w \in Workers :
    /\ pc[w] = "clear"
    /\ conn[w] = 1
    /\ prepare_idle[w]
    /\ ~empty(cache[w])
    /\ \E s \in SentinelArena(w) :
         /\ head[inbound(w, 0)] = Tagged(s, reverse)
         /\ next[s] = NULL
         /\ function[s] = <<"interrupt", w>>

\* C30: a send whose CAS succeeds replaced the head it had loaded in that
\* attempt; it goes on to evaluate a sentinel exactly if that head was a
\* Reverse-tagged task, which is never null, and then the published task's
\* next link is null, the sentinel is not yet evaluated, and the task is the
\* head of the buffer.  A sender starts to evaluate a sentinel only from
\* such a CAS, and becomes the evaluator of a sentinel only if it replaced
\* it.  A failed CAS evaluates, releases and destroys nothing and goes back
\* to the load, and every load records the head it read, whatever an
\* earlier attempt had recorded.
C30_SendProtocol ==
  [][\A th \in Threads :
       /\ (pc[th] = "send_cas" /\ pc'[th] \notin {"send_cas", "send_load"})
            => LET b == sendBuf[th]
                   t == TaskOf(sendTask[th])
               IN /\ head[b] = prior[th]
                  /\ head'[b] = sendTask[th]
                  /\ tag(prior[th]) = reverse => ~empty(prior[th])
                  /\ pc'[th] = "wake" <=> tag(prior[th]) = reverse
                  /\ pc'[th] = "wake"
                       => /\ next'[t] = TaggedPointer(NULL, normal)
                          /\ message'[th] = prior[th]
                          /\ alive[TaskOf(prior[th])]
                          /\ function[TaskOf(prior[th])][1] = "interrupt"
                          /\ evalCount' = evalCount
                          /\ references' = references
                  /\ pc'[th] # "wake"
                       => /\ message'[th] = NULL
                          /\ next'[t] = prior[th]
                          /\ evalCount' = evalCount
                          /\ references' = references
       /\ (pc[th] = "send_cas" /\ pc'[th] = "send_load")
            => /\ head[sendBuf[th]] # prior[th]
               /\ head' = head
               /\ evalCount' = evalCount
               /\ references' = references
               /\ alive' = alive
               /\ armed' = armed
       /\ (pc[th] = "send_load" /\ pc'[th] = "send_cas")
            => /\ prior'[th] = head[sendBuf[th]]
               /\ message'[th] = head[sendBuf[th]]
       /\ (pc'[th] = "wake" /\ pc[th] # "wake") => pc[th] = "send_cas"
       /\ \A w \in Workers : \A s \in SentinelArena(w) :
            (pc[th] # "wake" \/ TaskOf(message[th]) # s)
            /\ evalBy'[s] = th
              => evalBy[s] = th /\ evalCount'[s] <= evalCount[s]]_vars

\* The owner is evaluating the sentinel it replaced while the worker, whose
\* CAS failed after it had loaded the same sentinel, is back at the load.
C30_Witness ==
  \E b \in Buffers :
    /\ pc[Main] = "wake"
    /\ pc[0] = "send_load"
    /\ sendBuf[0] = b
    /\ message[0] = message[Main]
    /\ tag(message[Main]) = reverse
    /\ evalCount[TaskOf(message[Main])] = 0
    /\ tag(head[b]) = normal
    /\ ~empty(head[b])
    /\ next[TaskOf(head[b])] = TaggedPointer(NULL, normal)

\* The number of buffers and batches that hold task t.
Places(t) ==
  Cardinality({b \in Buffers : t \in Range(Held(b))})
  + Cardinality({w \in Workers : t \in Range(ListOf(next, batch[w]))})

\* C31: buffer conservation.  A Normal task is held by at most one buffer
\* or batch, and by none twice.  An insert puts its task in front of what
\* the buffer holds and removes no Normal task.  A Normal task leaves a
\* buffer only by a clear of that buffer (by its worker or by ~Worker), and
\* every clear by a worker returns exactly the tasks inserted since the
\* previous clear, each once, and leaves none of them in any buffer.
C31_BufferConservation ==
  /\ [](\A t \in NormalTasks : Places(t) <= 1)
  /\ [](\A b \in Buffers : Cardinality(Range(Held(b))) = Len(Held(b)))
  /\ [][\A w, j \in 0 .. (size - 1) :
          LET b == inbound(w, j)
              old == Range(Held(b)) \cap NormalTasks
              cleared == /\ pc[w] = "clear"
                         /\ Position(w)' # Position(w)
                         /\ j = conn[w]
          IN /\ cleared =>
                  /\ tag(head[b]) = normal =>
                       /\ Held(b) = Reversed(inserted[b])
                       /\ ListOf(next', batch'[w]) = Held(b)
                  /\ tag(head[b]) = reverse => inserted[b] = <<>>
                  /\ \A c \in Buffers : Range(ListOf(next', head'[c]))
                                          \cap old = {}
                  /\ \A t \in old : Places(t)' = 1
             /\ \A th \in Threads :
                  (/\ pc[th] = "send_cas"
                   /\ pc'[th] \notin {"send_cas", "send_load"}
                   /\ sendBuf[th] = b) =>
                     /\ ListOf(next', head'[b]) =
                          <<TaskOf(sendTask[th])>> \o
                            (IF tag(head[b]) = normal THEN Held(b) ELSE <<>>)
                     /\ inserted'[b] =
                          Append(inserted[b], TaskOf(sendTask[th]))
             /\ \A t \in old :
                  t \notin Range(ListOf(next', head'[b])) =>
                    \/ cleared
                    \/ pc[Main] = "destroy"]_vars

\* A worker has cleared a buffer that held a task while another insert into
\* the same buffer was between its load and its CAS.
C31_Witness ==
  \E w \in Workers : \E th \in Threads :
    /\ pc[w] = "batch"
    /\ Len(ListOf(next, batch[w])) = 1
    /\ tag(batch[w]) = normal
    /\ pc[th] = "send_cas"
    /\ sendBuf[th] = inbound(w, conn[w])
    /\ prior[th] = batch[w]
    /\ empty(head[sendBuf[th]])

\* C32: clear is one step whatever the inserts are doing: it returns the
\* head and leaves its value in the Exchange.  The CAS of an insert fails
\* only if another thread has changed the head since the insert's load, and
\* then the insert goes back to its load; a CAS with no such change
\* succeeds.  With one inserting thread the head is changed by clear only,
\* and an insert has failed at most as often as clear was called during it.
C32_Progress ==
  /\ [](exProducers = 1 => exRetries[1] <= exClears[1])
  /\ [][/\ exCleared' # exCleared
          => /\ exBatch' = exHead
             /\ exPc' = exPc
             /\ exHead' \in {TaggedPointer(NULL, normal),
                             Tagged(SentinelOf(exCleared'), reverse)}
        /\ \A p \in Inserters :
             /\ exRetries'[p] = exRetries[p] + 1
                  => /\ exTouched[p]
                     /\ exHead # exPrior[p]
                     /\ exHead' = exHead
                     /\ exPc'[p] = "load"
             /\ (exPc[p] = "cas" /\ exPc'[p] # "cas" /\ ~exTouched[p])
                  => /\ exPc'[p] = "idle"
                     /\ exHead' = exLink[p]
                     /\ exInserted'[p] = exInserted[p] + 1
             /\ (exProducers = 1 /\ ~exTouched[p] /\ exTouched'[p])
                  => exCleared' = exCleared + 1]_vars

\* The only inserting thread has failed twice in one insert, once for each
\* of the two clears made during it, and has completed the insert.
C32_Witness ==
  /\ exProducers = 1
  /\ exPc[1] = "idle"
  /\ exInserted[1] = 1
  /\ exRetries[1] = 2
  /\ exClears[1] = 2
  /\ exHead = exLink[1]

\* C33 as stated, for a task destroyed with pending == self: no reference
\* count is decremented by its destruction, its own included, so the count
\* that release() took from 1 to 0 is still 0 afterwards.
C33_NoCountDecremented ==
  [][\A t \in Pool :
       (alive[t] /\ ~alive'[t] /\ pending[t] = sentinel(t))
         => references'[t] = 0]_vars

\* A completed task was destroyed when the client dropped its last handle,
\* and its count is one below zero.
C33_Witness ==
  /\ handles = {}
  /\ created = 2
  /\ \A t \in 1 .. 2 :
       ~alive[t] /\ pending[t] = sentinel(t) /\ references[t] = 0 - 1

\* C34 as stated, for every task: once the loop of a worker has exited, no
\* task linked in one of its inbound buffers is taken out of the buffer to
\* be evaluated. (A sender whose insert replaces a Reverse head goes on to
\* ~PrepareMessage, which evaluates that message.)
C34_NoResidualEvaluated ==
  [][\A w \in 0 .. (size - 1) : \A th \in Threads :
       \A t \in InboundTasks(w) :
          pc[w] = "done"
            => ~(/\ pc[th] = "send_cas"
                 /\ pc'[th] = "wake"
                 /\ message'[th] = Tagged(t, reverse))]_vars

\* The step of ~Worker for the worker joinIndex.
DestroyStep ==
  /\ pc[Main] = "destroy"
  /\ joinIndex' # joinIndex \/ pc'[Main] # "destroy"

\* C34: once the loop of a worker has exited the worker takes no further
\* step, and a Normal task that is in, or is later inserted into, one of its
\* inbound buffers is never evaluated: it stays linked there until ~Worker
\* releases it. A Reverse sentinel left there stays too, unless a later
\* sender's insert replaces it (that sender then evaluates and releases it).
\* ~Worker leaves every inbound buffer of its node with a null Normal head,
\* releases each residual message exactly once without evaluating it, finds
\* the sentinel cache empty, and runs only when every worker thread has
\* returned from its loop and has been joined.
C34_ResidualReleased ==
  /\ [](pc[Main] \in {"destroy", "destroyed"}
          => \A w \in 0 .. (size - 1) : pc[w] = "done" /\ empty(cache[w]))
  /\ [][\A w \in 0 .. (size - 1) :
          pc[w] = "done" =>
            /\ Position(w)' = Position(w)
            /\ \A t \in InboundTasks(w) :
                 \/ /\ t \in InboundTasks(w)'
                    /\ evalCount'[t] = evalCount[t]
                    /\ alive'[t]
                 \/ /\ DestroyStep
                    /\ joinIndex = w
                 \/ /\ t \in SentinelArena(w)
                    /\ \E th \in Threads :
                         /\ pc[th] = "send_cas"
                         /\ pc'[th] = "wake"
                         /\ message'[th] = Tagged(t, reverse)]_vars
  /\ [][DestroyStep =>
          /\ \A j \in 0 .. (size - 1) :
               head'[inbound(joinIndex, j)] = TaggedPointer(NULL, normal)
          /\ \A t \in Pool :
               /\ evalCount'[t] = evalCount[t]
               /\ references'[t] =
                    (IF t \in InboundTasks(joinIndex)
                     THEN references[t] - 1 ELSE references[t])
               /\ alive'[t] = (alive[t] /\ references'[t] # 0)
          /\ \A t \in InboundTasks(joinIndex) :
               alive[t] /\ references[t] > 0]_vars

\* C34 witness: the executor is destroyed and a Normal task that was still
\* in an inbound buffer has been released by ~Worker without being
\* evaluated, while a wakeup sentinel has been evaluated.
C34_Witness ==
  /\ pc[Main] = "destroyed"
  /\ \E t \in NormalTasks :
       function[t][1] # "none" /\ evalCount[t] = 0 /\ ~alive[t]
  /\ \E w \in 0 .. (size - 1) : \E s \in SentinelArena(w) : evalCount[s] > 0

\* The positions of a worker thread outside Worker::operator()'s loop.
Outside == {"start", "done", "none"}

\* C35: available() is true on a thread exactly while the thread is inside
\* a worker's loop: current_worker is set to the worker on entry and to null
\* on exit, each on the entering or leaving thread only, and it is null on
\* the owner's thread throughout. While a worker's loop evaluates a task it
\* drained, current() on that thread is the index of that worker and
\* concurrency() is the number of workers of the executor.
C35_CurrentWorker ==
  /\ [](\A th \in Threads :
          available(th) <=> (th # Main /\ pc[th] \notin Outside))
  /\ [](\A w \in Workers :
          current[w] # NULL =>
            /\ available(w)
            /\ current_index(w) = w
            /\ evalBy[current[w]] = current_index(w)
            /\ concurrency(w) =
                 Cardinality({th \in Threads \ {Main} : pc[th] # "none"}))
  /\ [][\A w \in Workers :
          /\ (pc[w] = "start" /\ pc'[w] # "start")
               => current_worker' = [current_worker EXCEPT ![w] = w]
          /\ (pc[w] # "done" /\ pc'[w] = "done")
               => /\ current_worker[w] = w
                  /\ current_worker' = [current_worker EXCEPT ![w] = NoWorker]
          /\ (pc[w] \in Outside <=> pc'[w] \in Outside)
               => current_worker'[w] = current_worker[w]]_vars

\* C35 witness: one worker is evaluating a task it drained while another
\* worker's thread has left its loop.
C35_Witness ==
  \E w \in Workers : \E v \in Workers :
    /\ current[w] # NULL
    /\ evalBy[current[w]] = w
    /\ available(w)
    /\ pc[v] = "done"
    /\ ~available(v)

\* The wakeup sentinels of all workers.
Sentinels == UNION {SentinelArena(w) : w \in Workers}

\* C36: a Reverse-tagged message occurs in a buffer only as the head, with
\* a null next link, and it is a wakeup sentinel; a buffer whose head is
\* Normal holds Normal tasks only, linked by Normal-tagged pointers; no
\* Normal task's next link refers to a sentinel; so the batch a clear
\* returned is a single Reverse sentinel or a chain of Normal tasks.
C36_SentinelAlone ==
  /\ \A b \in Buffers :
       /\ tag(head[b]) = reverse =>
            /\ TaskOf(head[b]) \in Sentinels
            /\ alive[TaskOf(head[b])]
            /\ next[TaskOf(head[b])] = TaggedPointer(NULL, normal)
            /\ Held(b) = <<TaskOf(head[b])>>
       /\ tag(head[b]) = normal => Range(Held(b)) \subseteq NormalTasks
       /\ \A t \in Range(Held(b)) : tag(next[t]) = normal
  /\ \A t \in NormalTasks :
       alive[t] =>
         /\ tag(next[t]) = normal
         /\ empty(next[t]) \/ TaskOf(next[t]) \notin Sentinels
  /\ \A w \in Workers :
       pc[w] = "batch" =>
         IF tag(batch[w]) = reverse
         THEN /\ ListOf(next, batch[w]) = <<TaskOf(batch[w])>>
              /\ TaskOf(batch[w]) \in SentinelArena(w)
         ELSE Range(ListOf(next, batch[w])) \subseteq NormalTasks

\* C36 witness: a sender has linked its task in front of nothing after it
\* loaded a Reverse head, the sentinel is still the head of that buffer,
\* and a worker holds a batch that is a single Reverse sentinel.
C36_Witness ==
  /\ \E th \in Threads :
       /\ pc[th] = "send_cas"
       /\ tag(prior[th]) = reverse
       /\ head[sendBuf[th]] = prior[th]
       /\ next[TaskOf(sendTask[th])] = TaggedPointer(NULL, normal)
  /\ \E w \in Workers : pc[w] = "batch" /\ tag(batch[w]) = reverse

\* The sentinels of worker w that are linked in its inbound buffers, and
\* the list of its sentinel cache.
Posted(w) == InboundTasks(w) \cap SentinelArena(w)
Cached(w) == ListOf(next, cache[w])

\* C37: of a worker with size connections, each inbound buffer holds at
\* most one sentinel (none of another worker), no sentinel is at once in a
\* buffer and in the cache or twice in the cache, and the sentinels in the
\* buffers and in the cache together are at most size. During a pass that
\* posts sentinels no buffer that is still to be cleared holds one, so at
\* its start none does: a pass turns to posting only after a pass that
\* posted none, that is, one that cleared every buffer with null.
C37_BoundedSentinels ==
  /\ [](\A w \in 0 .. (size - 1) :
          /\ \A j \in 0 .. (size - 1) :
               /\ Cardinality(Range(Held(inbound(w, j))) \cap Sentinels) <= 1
               /\ Range(Held(inbound(w, j))) \cap Sentinels
                    \subseteq SentinelArena(w)
          /\ Posted(w) \cap Range(Cached(w)) = {}
          /\ Range(Cached(w)) \subseteq SentinelArena(w)
          /\ Cardinality(Range(Cached(w))) = Len(Cached(w))
          /\ Cardinality(Posted(w)) + Len(Cached(w)) <= size
          /\ (pc[w] = "clear" /\ prepare_idle[w]) =>
               /\ posted[w] = conn[w]
               /\ \A j \in conn[w] .. (size - 1) :
                    tag(head[inbound(w, j)]) = normal)
  /\ [][\A w \in 0 .. (size - 1) :
          (~prepare_idle[w] /\ prepare_idle'[w]) =>
            /\ posted[w] = 0
            /\ pc'[w] = "clear" /\ conn'[w] = 0
            /\ Posted(w)' = {}]_vars

\* C37 witness: a worker at the start of a posting pass with every one of
\* its sentinels in the cache, after an earlier posting pass.
C37_Witness ==
  \E w \in 0 .. (size - 1) :
    /\ pc[w] = "clear"
    /\ conn[w] = 0
    /\ prepare_idle[w]
    /\ Len(Cached(w)) = size
    /\ Posted(w) = {}

\* The number of notify() calls made so far.
Notified == Cardinality({i \in Notifiers : join_notify[i] # "idle"})

\* C38 as stated, first half: wait() does not return before join_events
\* notify() calls have been made.
C38_WaitForAllNotifies ==
  join_wait = "returned" => Notified >= join_events

\* C38 witness: wait() has returned although no notify() call at all has
\* been made, after condition.wait returned spuriously.
C38_Witness ==
  /\ join_events > 0
  /\ join_wait = "returned"
  /\ Notified = 0
  /\ join_count = join_events
  /\ join_spurious

\* What holds of wait(): without a spurious return of condition.wait it
\* returns only after all notify() calls were made, and a thread blocked in
\* condition.wait is woken by the notify_all of the last notify(): that
\* call never reaches its notify_all while wait() is between its test of
\* the count and condition.wait.
JoinNoMissedNotify ==
  /\ (join_wait = "returned" /\ ~join_spurious) => Notified = join_events
  /\ \A i \in Notifiers :
       (join_notify[i] \in {"unlock", "notify"} /\ join_wait = "check")
         => join_count = 0
  /\ (join_wait = "waiting" /\ join_count = 0) =>
       \E i \in Notifiers : join_notify[i] \in {"lock", "unlock", "notify"}

\* Once wait() has been called and all notify() calls are made, wait()
\* returns.
JoinReturns == (join_events > 0) ~> (join_wait = "returned")

\* C39 as stated, the part about casts: the tagged pointer cast() returns
\* has the tag of the tagged pointer it was made of.
C39_CastKeepsTag ==
  tp_cast.bits > 0 => tagOf(tp_cast.value, tp_cast.bits) = tp_cast.tag

\* C39 witness: a tagged pointer with tag 2 was cast to a pointee type with
\* one tag bit; the result reads back tag 0 and a pointer that is off by 2.
C39_Witness ==
  /\ tp_bits > 1
  /\ tp_cast.bits = 1
  /\ tp_cast.tag = 2
  /\ tagOf(tp_cast.value, tp_cast.bits) = 0
  /\ getOf(tp_cast.value, tp_cast.bits) = tp_cast.pointer + 2

\* What holds of a tagged pointer: it reads back the pointer and the tag it
\* was built from or re-tagged to, one built from null has tag 0, two of
\* them are equal exactly when pointer and tag both agree, and a cast to a
\* type with at least as many tag bits keeps the tag and yields the cast
\* pointer.
TagRoundTrip ==
  /\ \A i \in Words :
       /\ getOf(tp_value[i], tp_bits) = tp_built[i][1]
       /\ tagOf(tp_value[i], tp_bits) = tp_built[i][2]
       /\ tp_value[i] = NULL => tagOf(tp_value[i], tp_bits) = 0
  /\ Equal(tp_value[1], tp_value[2]) <=> tp_built[1] = tp_built[2]
  /\ tp_cast.bits >= tp_bits =>
       /\ tagOf(tp_cast.value, tp_cast.bits) = tp_cast.tag
       /\ getOf(tp_cast.value, tp_cast.bits) = tp_cast.pointer

====
